---- MODULE Spec2Model ----
(***************************************************************************)
(* A model of the LevelDB <-> JSON toolbox in ldb-access:                  *)
(*   dump_leveldb_to_json.py      (dump a store into editable JSON files)  *)
(*   rebuild_leveldb_from_json.py (rebuild a store from those files)       *)
(*                                                                         *)
(* Text is a sequence of code points and a byte string is a sequence of    *)
(* numbers 0..255, so that sanitising, key parsing, UTF-8, base64 and JSON *)
(* are computed the way the Python code computes them.                     *)
(***************************************************************************)
EXTENDS Integers, Sequences, FiniteSets, TLC

(***************************************************************************)
(* Characters and small sequence helpers                                   *)
(***************************************************************************)
Bang == 33
Quote == 34
Dot == 46
Slash == 47
Under == 95
Backslash == 92

Range(f) == {f[i] : i \in DOMAIN f}

SubFrom(s, i) == IF i > Len(s) THEN <<>> ELSE SubSeq(s, i, Len(s))

\* the concatenation of a list of sequences, by halves
RECURSIVE Concat(_)
Concat(ss) ==
    IF Len(ss) = 0 THEN <<>>
    ELSE IF Len(ss) = 1 THEN ss[1]
    ELSE LET h == Len(ss) \div 2
         IN Concat(SubSeq(ss, 1, h)) \o Concat(SubSeq(ss, h + 1, Len(ss)))

\* the positions of s, in order, at which Keep holds
PositionsWhere(s, Keep(_)) == SelectSeq([i \in 1..Len(s) |-> i], Keep)

\* sep.join(ss)
JoinWith(ss, sep) ==
    Concat([i \in 1..(2 * Len(ss) - 1) |-> IF i % 2 = 1 THEN ss[(i + 1) \div 2] ELSE sep])

\* str.split(sep) for a one-character separator: the pieces between
\* consecutive separators
Split(s, sep) ==
    LET cuts == <<0>> \o PositionsWhere(s, LAMBDA i : s[i] = sep) \o <<Len(s) + 1>>
    IN [k \in 1..(Len(cuts) - 1) |-> SubSeq(s, cuts[k] + 1, cuts[k + 1] - 1)]

StartsWith(s, p) == Len(s) >= Len(p) /\ SubSeq(s, 1, Len(p)) = p

\* str.isspace / str.isalnum on the code points the model draws (ASCII and
\* the Latin-1 letters)
IsSpace(c) == c \in {9, 10, 11, 12, 13, 28, 29, 30, 31, 32, 133, 160}

IsAlnum(c) ==
    \/ c \in 48..57
    \/ c \in 65..90
    \/ c \in 97..122
    \/ c \in {170, 178, 179, 181, 185, 186, 188, 189, 190}
    \/ c \in 192..214
    \/ c \in 216..246
    \/ c \in 248..255

\* the characters str.strip() removes (under = FALSE) or str.strip("_") removes
Strippable(c, under) == IF under THEN c = Under ELSE IsSpace(c)

RECURSIVE LStripBy(_, _)
LStripBy(s, under) ==
    IF s # <<>> /\ Strippable(Head(s), under) THEN LStripBy(Tail(s), under) ELSE s

RECURSIVE RStripBy(_, _)
RStripBy(s, under) ==
    IF s # <<>> /\ Strippable(s[Len(s)], under)
    THEN RStripBy(SubSeq(s, 1, Len(s) - 1), under)
    ELSE s

\* str.strip()
Strip(s) == RStripBy(LStripBy(s, FALSE), FALSE)

\* str.strip("_")
StripUnder(s) == RStripBy(LStripBy(s, TRUE), TRUE)

S_unnamed == <<117, 110, 110, 97, 109, 101, 100>>
S_unknown == <<117, 110, 107, 110, 111, 119, 110>>
S_binary == <<98, 105, 110, 97, 114, 121>>
S_misc == <<109, 105, 115, 99>>
S_folders == <<102, 111, 108, 100, 101, 114, 115>>
S_tree == <<95, 116, 114, 101, 101>>
S_id == <<95, 105, 100>>
S_name == <<110, 97, 109, 101>>
S_title == <<116, 105, 116, 108, 101>>
S_label == <<108, 97, 98, 101, 108>>
S_folder == <<102, 111, 108, 100, 101, 114>>
S_base64 == <<98, 97, 115, 101, 54, 52>>
S_None == <<78, 111, 110, 101>>
S_json == <<46, 106, 115, 111, 110>>
S_uu == <<95, 95>>

SafeChar(c) == IF IsAlnum(c) \/ c = 45 \/ c = Under THEN c ELSE Under

\* _safe_name
SafeName(name) ==
    LET stripped == Strip(name)
        cleaned == [i \in 1..Len(stripped) |-> SafeChar(stripped[i])]
        core == StripUnder(cleaned)
    IN IF core = <<>> THEN S_unnamed ELSE core

(***************************************************************************)
(* UTF-8                                                                   *)
(***************************************************************************)
IsCont(b) == b \in 128..191

\* the length of the sequence a lead byte starts, 0 for a byte that starts none
Utf8Width(c) ==
    IF c < 128 THEN 1
    ELSE IF c \in 194..223 THEN 2
    ELSE IF c \in 224..239 THEN 3
    ELSE IF c \in 240..244 THEN 4
    ELSE 0

\* the sequence starting at position i is well formed and the next one
\* starts right after it
Utf8WellFormedAt(b, i) ==
    LET w == Utf8Width(b[i])
    IN /\ w > 0
       /\ i + w - 1 <= Len(b)
       /\ \A j \in (i + 1)..(i + w - 1) : IsCont(b[j])
       /\ (i + w <= Len(b) => ~IsCont(b[i + w]))
       /\ (b[i] = 224 => b[i + 1] >= 160)
       /\ (b[i] = 237 => b[i + 1] <= 159)
       /\ (b[i] = 240 => b[i + 1] >= 144)
       /\ (b[i] = 244 => b[i + 1] <= 143)

\* the code point of the well-formed sequence starting at position i
Utf8PointAt(b, i) ==
    LET c == b[i]
    IN IF c < 128 THEN c
       ELSE IF c < 224 THEN (c - 192) * 64 + (b[i + 1] - 128)
       ELSE IF c < 240
       THEN (c - 224) * 4096 + (b[i + 1] - 128) * 64 + (b[i + 2] - 128)
       ELSE (c - 240) * 262144 + (b[i + 1] - 128) * 4096 + (b[i + 2] - 128) * 64
            + (b[i + 3] - 128)

\* bytes.decode("utf-8"): ok = FALSE is UnicodeDecodeError
Utf8Decode(b) ==
    LET leads == PositionsWhere(b, LAMBDA i : ~IsCont(b[i]))
    IN IF (Len(b) > 0 /\ IsCont(b[1])) \/ \E k \in 1..Len(leads) : ~Utf8WellFormedAt(b, leads[k])
       THEN [ok |-> FALSE, s |-> <<>>]
       ELSE [ok |-> TRUE, s |-> [k \in 1..Len(leads) |-> Utf8PointAt(b, leads[k])]]

Utf8Char(c) ==
    IF c < 128 THEN <<c>>
    ELSE IF c < 2048 THEN <<192 + (c \div 64), 128 + (c % 64)>>
    ELSE IF c < 65536
    THEN <<224 + (c \div 4096), 128 + ((c \div 64) % 64), 128 + (c % 64)>>
    ELSE <<240 + (c \div 262144), 128 + ((c \div 4096) % 64),
           128 + ((c \div 64) % 64), 128 + (c % 64)>>

\* str.encode("utf-8")
Utf8Encode(s) == Concat([i \in 1..Len(s) |-> Utf8Char(s[i])])

(***************************************************************************)
(* base64                                                                  *)
(***************************************************************************)
B64Char(i) ==
    IF i < 26 THEN 65 + i
    ELSE IF i < 52 THEN 97 + (i - 26)
    ELSE IF i < 62 THEN 48 + (i - 52)
    ELSE IF i = 62 THEN 43 ELSE 47

IsB64Char(c) == c \in 65..90 \/ c \in 97..122 \/ c \in 48..57 \/ c = 43 \/ c = 47

B64Val(c) ==
    IF c \in 65..90 THEN c - 65
    ELSE IF c \in 97..122 THEN c - 97 + 26
    ELSE IF c \in 48..57 THEN c - 48 + 52
    ELSE IF c = 43 THEN 62 ELSE 63

\* base64.b64encode(raw).decode("ascii")
RECURSIVE B64Encode(_)
B64Encode(b) ==
    IF b = <<>> THEN <<>>
    ELSE IF Len(b) = 1
    THEN <<B64Char(b[1] \div 4), B64Char((b[1] % 4) * 16), 61, 61>>
    ELSE IF Len(b) = 2
    THEN <<B64Char(b[1] \div 4), B64Char((b[1] % 4) * 16 + (b[2] \div 16)),
           B64Char((b[2] % 16) * 4), 61>>
    ELSE <<B64Char(b[1] \div 4), B64Char((b[1] % 4) * 16 + (b[2] \div 16)),
           B64Char((b[2] % 16) * 4 + (b[3] \div 64)), B64Char(b[3] % 64)>>
         \o B64Encode(SubFrom(b, 4))

\* base64.b64decode(s) (validate=False): characters outside the alphabet are
\* discarded; ok = FALSE is binascii.Error
RECURSIVE B64DecodeAcc(_, _, _, _, _, _)
B64DecodeAcc(s, i, quad, pads, left, acc) ==
    IF i > Len(s) THEN [ok |-> quad = 0, b |-> acc]
    ELSE LET c == s[i] IN
         IF c = 61
         THEN IF quad >= 2 /\ pads + 1 >= 4 - quad
              THEN [ok |-> TRUE, b |-> acc]
              ELSE B64DecodeAcc(s, i + 1, quad, IF quad >= 2 THEN pads + 1 ELSE pads,
                                left, acc)
         ELSE IF ~IsB64Char(c) THEN B64DecodeAcc(s, i + 1, quad, pads, left, acc)
         ELSE LET v == B64Val(c) IN
              IF quad = 0 THEN B64DecodeAcc(s, i + 1, 1, 0, v, acc)
              ELSE IF quad = 1
              THEN B64DecodeAcc(s, i + 1, 2, 0, v % 16,
                                Append(acc, left * 4 + (v \div 16)))
              ELSE IF quad = 2
              THEN B64DecodeAcc(s, i + 1, 3, 0, v % 4,
                                Append(acc, left * 16 + (v \div 4)))
              ELSE B64DecodeAcc(s, i + 1, 0, 0, 0, Append(acc, left * 64 + v))

B64Decode(s) == B64DecodeAcc(s, 1, 0, 0, 0, <<>>)

(***************************************************************************)
(* JSON values                                                             *)
(* A value is a record [t, n, s, a, o]: t the type, n a number or a        *)
(* boolean (0/1), s a string, a the items of an array, o the               *)
(* (key, value) pairs of an object in insertion order.                     *)
(***************************************************************************)
VNull == [t |-> "null", n |-> 0, s |-> <<>>, a |-> <<>>, o |-> <<>>]
VBool(b) == [t |-> "bool", n |-> IF b THEN 1 ELSE 0, s |-> <<>>, a |-> <<>>, o |-> <<>>]
VNum(k) == [t |-> "num", n |-> k, s |-> <<>>, a |-> <<>>, o |-> <<>>]
VStr(x) == [t |-> "str", n |-> 0, s |-> x, a |-> <<>>, o |-> <<>>]
VArr(items) == [t |-> "arr", n |-> 0, s |-> <<>>, a |-> items, o |-> <<>>]
VObj(pairs) == [t |-> "obj", n |-> 0, s |-> <<>>, a |-> <<>>, o |-> pairs]

KV(k, v) == [k |-> k, v |-> v]

IsDict(v) == v.t = "obj"
IsStr(v) == v.t = "str"

DictKeys(v) == {v.o[i].k : i \in DOMAIN v.o}
HasKey(v, k) == \E i \in DOMAIN v.o : v.o[i].k = k

\* dict.get(k), None when absent
DictGet(v, k) ==
    IF HasKey(v, k) THEN v.o[CHOOSE i \in DOMAIN v.o : v.o[i].k = k].v ELSE VNull

\* d[k] = x: an existing key keeps its position
DictSet(v, k, x) ==
    IF HasKey(v, k)
    THEN VObj([i \in DOMAIN v.o |-> IF v.o[i].k = k THEN KV(k, x) ELSE v.o[i]])
    ELSE VObj(Append(v.o, KV(k, x)))

\* Python ==: dicts compare without order, True == 1 and False == 0
RECURSIVE ValEq(_, _)
ValEq(x, y) ==
    IF x.t \in {"num", "bool"} /\ y.t \in {"num", "bool"} THEN x.n = y.n
    ELSE IF x.t # y.t THEN FALSE
    ELSE IF x.t = "null" THEN TRUE
    ELSE IF x.t = "str" THEN x.s = y.s
    ELSE IF x.t = "arr"
    THEN Len(x.a) = Len(y.a) /\ \A i \in DOMAIN x.a : ValEq(x.a[i], y.a[i])
    ELSE DictKeys(x) = DictKeys(y)
         /\ \A k \in DictKeys(x) : ValEq(DictGet(x, k), DictGet(y, k))

(***************************************************************************)
(* JSON text: json.loads and json.dumps                                    *)
(* Numbers are integers; the model draws no floats, no \u escapes and no   *)
(* NaN/Infinity literals.                                                  *)
(***************************************************************************)
IsJsonWs(c) == c \in {32, 9, 10, 13}
IsDigit(c) == c \in 48..57

\* the first position from i on that holds no whitespace
SkipWs(s, i) ==
    IF i > Len(s) THEN i
    ELSE CHOOSE j \in i..(Len(s) + 1) :
            /\ j = Len(s) + 1 \/ ~IsJsonWs(s[j])
            /\ \A k \in i..(j - 1) : IsJsonWs(s[k])

ParseFail == [ok |-> FALSE, v |-> VNull, nx |-> 0]
ParseOk(v, nx) == [ok |-> TRUE, v |-> v, nx |-> nx]

Unescape(c) ==
    IF c = 110 THEN 10
    ELSE IF c = 116 THEN 9
    ELSE IF c = 114 THEN 13
    ELSE IF c = 98 THEN 8
    ELSE IF c = 102 THEN 12
    ELSE c

\* position m of a string literal's body, which starts at position i,
\* follows an odd run of backslashes: the character there is escaped
Escaped(s, i, m) ==
    /\ m > i
    /\ s[m - 1] = Backslash
    /\ LET before == CHOOSE k \in (i - 1)..(m - 1) :
                         /\ k = i - 1 \/ s[k] # Backslash
                         /\ \A x \in (k + 1)..(m - 1) : s[x] = Backslash
       IN (m - 1 - before) % 2 = 1

\* the value of a hexadecimal digit, -1 for any other character
HexVal(c) ==
    IF c \in 48..57 THEN c - 48
    ELSE IF c \in 97..102 THEN c - 87
    ELSE IF c \in 65..70 THEN c - 55
    ELSE 0 - 1

\* the first quote from position i on that is not escaped, 0 if there is none
ClosingQuote(s, i) ==
    LET closing(j) == s[j] = Quote /\ ~Escaped(s, i, j)
        ends(S) == IF S = {} THEN 0 ELSE CHOOSE j \in S : \A k \in S : j <= k
    IN ends({j \in i..Len(s) : closing(j)})

\* the string whose body is s[i..q-1].  A \uXXXX escape yields the code
\* unit it names.
StrBody(s, i, q) ==
    LET starts(m) == s[m] = Backslash /\ ~Escaped(s, i, m)
        unicode(m) == m >= i /\ starts(m) /\ s[m + 1] = 117
        hex(m) == \E d \in 2..5 : unicode(m - d)
        char(m) == IF ~Escaped(s, i, m) THEN s[m]
                   ELSE IF s[m] = 117
                   THEN HexVal(s[m + 1]) * 4096 + HexVal(s[m + 2]) * 256
                        + HexVal(s[m + 3]) * 16 + HexVal(s[m + 4])
                   ELSE Unescape(s[m])
        chars(kept) == [k \in 1..Len(kept) |-> char(kept[k])]
    IN IF \E m \in i..(q - 1) :
             \/ s[m] < 32
             \/ starts(m) /\ s[m + 1] \notin {Quote, Backslash, Slash, 98, 102, 110, 114,
                                               116, 117}
             \/ unicode(m) /\ (m + 5 > q - 1 \/ \E d \in 2..5 : HexVal(s[m + d]) < 0)
       THEN ParseFail
       ELSE ParseOk(VStr(chars(SelectSeq([k \in 1..(q - i) |-> i + k - 1],
                                         LAMBDA m : ~starts(m) /\ ~hex(m)))),
                    q + 1)

\* the body of a string literal, from the character after the opening
\* quote to the first quote that is not escaped
ParseStr(s, i) ==
    LET to(q) == IF q = 0 THEN ParseFail ELSE StrBody(s, i, q)
    IN to(ClosingQuote(s, i))

RECURSIVE ParseDigits(_, _, _)
ParseDigits(s, i, acc) ==
    IF i <= Len(s) /\ IsDigit(s[i]) THEN ParseDigits(s, i + 1, acc * 10 + (s[i] - 48))
    ELSE [n |-> acc, nx |-> i]

\* -? (0 | [1-9][0-9]*)
ParseNum(s, i) ==
    LET digits(neg, d) == ParseOk(VNum(IF neg THEN 0 - d.n ELSE d.n), d.nx)
        from(neg, j) ==
            IF j > Len(s) \/ ~IsDigit(s[j]) THEN ParseFail
            ELSE IF s[j] = 48 THEN ParseOk(VNum(0), j + 1)
            ELSE digits(neg, ParseDigits(s, j, 0))
    IN from(s[i] = 45, IF s[i] = 45 THEN i + 1 ELSE i)

S_null == <<110, 117, 108, 108>>
S_true == <<116, 114, 117, 101>>
S_false == <<102, 97, 108, 115, 101>>

LiteralAt(s, i, lit) == i + Len(lit) - 1 <= Len(s) /\ SubSeq(s, i, i + Len(lit) - 1) = lit

RECURSIVE ParseVal(_, _)
RECURSIVE ParseArr(_, _, _)
RECURSIVE ParseObj(_, _, _)

\* one JSON value starting at s[i]
ParseVal(s, i) ==
    LET array(j) == IF j <= Len(s) /\ s[j] = 93 THEN ParseOk(VArr(<<>>), j + 1)
                    ELSE ParseArr(s, j, <<>>)
        object(j) == IF j <= Len(s) /\ s[j] = 125 THEN ParseOk(VObj(<<>>), j + 1)
                     ELSE ParseObj(s, j, VObj(<<>>))
    IN IF i > Len(s) THEN ParseFail
       ELSE IF s[i] = Quote THEN ParseStr(s, i + 1)
       ELSE IF s[i] = 45 \/ IsDigit(s[i]) THEN ParseNum(s, i)
       ELSE IF s[i] = 91 THEN array(SkipWs(s, i + 1))
       ELSE IF s[i] = 123 THEN object(SkipWs(s, i + 1))
       ELSE IF LiteralAt(s, i, S_null) THEN ParseOk(VNull, i + 4)
       ELSE IF LiteralAt(s, i, S_true) THEN ParseOk(VBool(TRUE), i + 4)
       ELSE IF LiteralAt(s, i, S_false) THEN ParseOk(VBool(FALSE), i + 5)
       ELSE ParseFail

\* the items of an array, s[i] the first character of the next item
ParseArr(s, i, acc) ==
    LET after(items, j) ==
            IF j > Len(s) THEN ParseFail
            ELSE IF s[j] = 93 THEN ParseOk(VArr(items), j + 1)
            ELSE IF s[j] = 44 THEN ParseArr(s, SkipWs(s, j + 1), items)
            ELSE ParseFail
        item(r) == IF ~r.ok THEN ParseFail ELSE after(Append(acc, r.v), SkipWs(s, r.nx))
    IN item(ParseVal(s, i))

\* the members of an object, s[i] the opening quote of the next key; a
\* repeated key keeps its last value
ParseObj(s, i, acc) ==
    LET after(members, j) ==
            IF j > Len(s) THEN ParseFail
            ELSE IF s[j] = 125 THEN ParseOk(members, j + 1)
            ELSE IF s[j] = 44 THEN ParseObj(s, SkipWs(s, j + 1), members)
            ELSE ParseFail
        member(k, r) ==
            IF ~r.ok THEN ParseFail ELSE after(DictSet(acc, k.v.s, r.v), SkipWs(s, r.nx))
        colon(k, c) ==
            IF c > Len(s) \/ s[c] # 58 THEN ParseFail
            ELSE member(k, ParseVal(s, SkipWs(s, c + 1)))
        key(k) == IF ~k.ok THEN ParseFail ELSE colon(k, SkipWs(s, k.nx))
    IN IF i > Len(s) \/ s[i] # Quote THEN ParseFail ELSE key(ParseStr(s, i + 1))

\* json.loads: ok = FALSE is JSONDecodeError
Loads(s) ==
    LET whole(r) == IF r.ok /\ SkipWs(s, r.nx) = Len(s) + 1 THEN [ok |-> TRUE, v |-> r.v]
                    ELSE [ok |-> FALSE, v |-> VNull]
    IN whole(ParseVal(s, SkipWs(s, 1)))

RECURSIVE DigitsOf(_)
DigitsOf(n) == IF n < 10 THEN <<48 + n>> ELSE Append(DigitsOf(n \div 10), 48 + (n % 10))

NumText(n) == IF n < 0 THEN <<45>> \o DigitsOf(0 - n) ELSE DigitsOf(n)

HexDigit(d) == IF d < 10 THEN 48 + d ELSE 97 + (d - 10)

EscapeChar(c) ==
    IF c = Quote THEN <<Backslash, Quote>>
    ELSE IF c = Backslash THEN <<Backslash, Backslash>>
    ELSE IF c = 10 THEN <<Backslash, 110>>
    ELSE IF c = 13 THEN <<Backslash, 114>>
    ELSE IF c = 9 THEN <<Backslash, 116>>
    ELSE IF c = 8 THEN <<Backslash, 98>>
    ELSE IF c = 12 THEN <<Backslash, 102>>
    ELSE IF c < 32 THEN <<Backslash, 117, 48, 48, HexDigit(c \div 16), HexDigit(c % 16)>>
    ELSE <<c>>

\* a string literal with ensure_ascii=False
StrText(x) == <<Quote>> \o Concat([i \in 1..Len(x) |-> EscapeChar(x[i])]) \o <<Quote>>

Spaces(k) == [i \in 1..k |-> 32]

\* json.dumps(v, ensure_ascii=False, ...): pretty is indent=2, otherwise
\* separators=(",", ":"); level is the nesting depth
RECURSIVE DumpsAt(_, _, _)
DumpsAt(v, pretty, level) ==
    LET nl(k) == IF pretty THEN <<10>> \o Spaces(2 * k) ELSE <<>>
        itemsep == IF pretty THEN <<44>> \o nl(level + 1) ELSE <<44>>
        keysep == IF pretty THEN <<58, 32>> ELSE <<58>>
    IN CASE v.t = "null" -> S_null
         [] v.t = "bool" -> (IF v.n = 1 THEN S_true ELSE S_false)
         [] v.t = "num" -> NumText(v.n)
         [] v.t = "str" -> StrText(v.s)
         [] v.t = "arr" /\ v.a = <<>> -> <<91, 93>>
         [] v.t = "arr" /\ v.a # <<>> ->
                <<91>> \o nl(level + 1)
                \o JoinWith([i \in DOMAIN v.a |-> DumpsAt(v.a[i], pretty, level + 1)],
                            itemsep)
                \o nl(level) \o <<93>>
         [] v.t = "obj" /\ v.o = <<>> -> <<123, 125>>
         [] v.t = "obj" /\ v.o # <<>> ->
                <<123>> \o nl(level + 1)
                \o JoinWith([i \in DOMAIN v.o |->
                               StrText(v.o[i].k) \o keysep
                               \o DumpsAt(v.o[i].v, pretty, level + 1)],
                            itemsep)
                \o nl(level) \o <<125>>

DumpsCompact(v) == DumpsAt(v, FALSE, 0)
DumpsIndent(v) == DumpsAt(v, TRUE, 0)

(***************************************************************************)
(* ValueCodec                                                              *)
(***************************************************************************)
Base64Wrapper(raw) == VObj(<<KV(S_base64, VStr(B64Encode(raw)))>>)

\* dump: _encode_bytes
EncodeBytes(raw) ==
    LET d == Utf8Decode(raw)
    IN IF d.ok THEN VStr(d.s) ELSE Base64Wrapper(raw)

\* dump: _coerce_value
CoerceValue(raw, parse_json_values) ==
    LET encoded == EncodeBytes(raw)
    IN IF ~parse_json_values \/ ~IsStr(encoded) THEN encoded
       ELSE LET r == Loads(encoded.s) IN IF r.ok THEN r.v ELSE encoded

\* rebuild: _decode_value
DecodeValue(raw) ==
    LET d == Utf8Decode(raw)
    IN IF ~d.ok THEN Base64Wrapper(raw)
       ELSE LET r == Loads(d.s) IN IF r.ok THEN r.v ELSE VStr(d.s)

\* rebuild: _looks_like_base64_wrapper
LooksLikeBase64Wrapper(v) ==
    IsDict(v) /\ DictKeys(v) = {S_base64} /\ IsStr(DictGet(v, S_base64))

\* rebuild: _encode_value; ok = FALSE is the binascii.Error of b64decode
EncodeValue(v) ==
    IF LooksLikeBase64Wrapper(v) THEN B64Decode(DictGet(v, S_base64).s)
    ELSE IF IsStr(v) THEN [ok |-> TRUE, b |-> Utf8Encode(v.s)]
    ELSE [ok |-> TRUE, b |-> Utf8Encode(DumpsCompact(v))]

(***************************************************************************)
(* Python built-ins used on JSON values                                    *)
(***************************************************************************)
S_True == <<84, 114, 117, 101>>
S_False == <<70, 97, 108, 115, 101>>

\* bool(v)
PyTruthy(v) ==
    CASE v.t = "null" -> FALSE
      [] v.t \in {"bool", "num"} -> v.n # 0
      [] v.t = "str" -> v.s # <<>>
      [] v.t = "arr" -> v.a # <<>>
      [] v.t = "obj" -> v.o # <<>>

\* str(v); the repr of a list or dict is not modelled, the model draws none
\* where a string is expected
PyStr(v) ==
    CASE v.t = "str" -> v.s
      [] v.t = "null" -> S_None
      [] v.t = "bool" -> (IF v.n = 1 THEN S_True ELSE S_False)
      [] v.t = "num" -> NumText(v.n)

\* isinstance(v, str) and v.strip()
IsNonBlankStr(v) == IsStr(v) /\ Strip(v.s) # <<>>

\* the order of Python's str and bytes comparison
\* x < y for sequences of code points or bytes: decided at the first
\* position where they differ, else by length
SeqLess(x, y) ==
    LET n == IF Len(x) < Len(y) THEN Len(x) ELSE Len(y)
        diff == {i \in 1..n : x[i] # y[i] /\ \A j \in 1..(i - 1) : x[j] = y[j]}
    IN IF diff = {} THEN Len(x) < Len(y)
       ELSE LET d == CHOOSE i \in diff : TRUE IN x[d] < y[d]

RECURSIVE SortedSeq(_)
SortedSeq(S) ==
    IF S = {} THEN <<>>
    ELSE LET m == CHOOSE x \in S : \A y \in S \ {x} : SeqLess(x, y)
         IN <<m>> \o SortedSeq(S \ {m})

(***************************************************************************)
(* Paths and the file system                                               *)
(* A path is the sequence of its segments, str(path) joins them with "/".  *)
(* A directory tree is a function from str(relative path) to file text.    *)
(***************************************************************************)
PathStr(segs) == JoinWith(segs, <<Slash>>)
PathParts(p) == Split(p, Slash)

NoFiles == [p \in {} |-> <<>>]

\* path.write_text(text): creates or replaces the file
WriteFile(files, p, text) ==
    [q \in DOMAIN files \cup {p} |-> IF q = p THEN text ELSE files[q]]

S_full_json == <<102, 117, 108, 108>> \o S_json
S_folders_json == S_folders \o S_json
S_manifest_json == <<109, 97, 110, 105, 102, 101, 115, 116>> \o S_json

(***************************************************************************)
(* KeyCodec and record extraction (dump)                                   *)
(***************************************************************************)
\* _parse_key_parts
ParseKeyParts(raw) ==
    LET d == Utf8Decode(raw)
        parts == Split(d.s, Bang)
    IN IF ~d.ok THEN [root |-> S_binary, id |-> <<>>, text |-> <<>>]
       ELSE IF StartsWith(d.s, <<Bang>>) /\ Len(parts) >= 3 /\ parts[2] # <<>>
       THEN [root |-> parts[2], id |-> parts[3], text |-> d.s]
       ELSE [root |-> S_misc, id |-> d.s, text |-> d.s]

\* one record of _extract_records
ExtractRecord(key, value, parse_json_values) ==
    LET p == ParseKeyParts(key)
    IN [root |-> SafeName(p.root),
        id |-> p.id,
        key |-> IF p.text # <<>> THEN VStr(p.text) ELSE EncodeBytes(key),
        value |-> CoerceValue(value, parse_json_values)]

\* _extract_records: the store iterates in the order of its keys
ExtractRecords(rows, parse_json_values) ==
    LET keys == SortedSeq(DOMAIN rows)
    IN [i \in DOMAIN keys |-> ExtractRecord(keys[i], rows[keys[i]], parse_json_values)]

S_root == <<114, 111, 111, 116>>
S_key == <<107, 101, 121>>
S_value == <<118, 97, 108, 117, 101>>
S_idfield == <<105, 100>>
S_path == <<112, 97, 116, 104>>

\* a record as the dict the dump serialises
RecordJson(rec) ==
    VObj(<<KV(S_root, VStr(rec.root)), KV(S_idfield, VStr(rec.id)),
           KV(S_key, rec.key), KV(S_value, rec.value)>>)

\* _record_title (dump)
RecordTitle(value, fallback) ==
    LET fields == <<S_name, S_title, S_label, S_id>>
        hits == {i \in DOMAIN fields : IsDict(value) /\ IsNonBlankStr(DictGet(value, fields[i]))}
    IN IF hits = {} THEN SafeName(fallback)
       ELSE LET first == CHOOSE i \in hits : \A j \in hits : i <= j
            IN SafeName(DictGet(value, fields[first]).s)

(***************************************************************************)
(* FolderIndex                                                             *)
(***************************************************************************)
\* _folder_payload and the id _build_folder_index files a record under
FolderIdOf(record) ==
    LET own == DictGet(record.value, S_id)
    IN Strip(IF PyTruthy(own) THEN PyStr(own) ELSE record.id)

\* _build_folder_index: a later record replaces an earlier one of the same id
RECURSIVE BuildFolderIndexAcc(_, _)
BuildFolderIndexAcc(folder_records, acc) ==
    IF folder_records = <<>> THEN acc
    ELSE LET record == Head(folder_records)
             usable == IsDict(record.value) /\ PyTruthy(record.value)
                       /\ FolderIdOf(record) # <<>>
         IN BuildFolderIndexAcc(Tail(folder_records),
                IF usable
                THEN [f \in DOMAIN acc \cup {FolderIdOf(record)} |->
                        IF f = FolderIdOf(record) THEN record.value ELSE acc[f]]
                ELSE acc)

BuildFolderIndex(folder_records) == BuildFolderIndexAcc(folder_records, [f \in {} |-> VNull])

NoPath == [none |-> TRUE, segs |-> <<>>]
SomePath(segs) == [none |-> FALSE, segs |-> segs]

JoinPath_NameOnly(parent_segs, name) == <<name>>

\* parent / name
JoinPath(parent_segs, name) == Append(parent_segs, name)

MissingFolderPath_OwnName(folder_id) == SomePath(<<SafeName(folder_id)>>)

\* the result for a folder id that is not in the index: None
MissingFolderPath(folder_id) == NoPath

\* the depth of nested calls at which the interpreter raises RecursionError
RecursionLimit == 5

\* _compute_folder_path, depth the number of its frames on the stack;
\* raised = TRUE is RecursionError
RECURSIVE ComputeFolderPath(_, _, _, _)
ComputeFolderPath(folder_id, folder_by_id, memo, depth) ==
    IF depth >= RecursionLimit THEN [path |-> NoPath, memo |-> memo, raised |-> TRUE]
    ELSE IF folder_id \in DOMAIN memo
    THEN [path |-> SomePath(memo[folder_id]), memo |-> memo, raised |-> FALSE]
    ELSE IF folder_id \notin DOMAIN folder_by_id
    THEN [path |-> MissingFolderPath(folder_id), memo |-> memo, raised |-> FALSE]
    ELSE LET folder == folder_by_id[folder_id]
             name == SafeName(IF HasKey(folder, S_name) THEN PyStr(DictGet(folder, S_name))
                              ELSE folder_id)
             parent_id == DictGet(folder, S_folder)
             put(m, segs) == [f \in DOMAIN m \cup {folder_id} |->
                                IF f = folder_id THEN segs ELSE m[f]]
         IN IF IsStr(parent_id) /\ parent_id.s # <<>> /\ parent_id.s \in DOMAIN folder_by_id
               /\ parent_id.s # folder_id
            THEN LET parent == ComputeFolderPath(parent_id.s, folder_by_id, memo, depth + 1)
                 IN IF parent.raised THEN parent
                    ELSE IF parent.path.none
                    THEN [path |-> SomePath(<<name>>), memo |-> put(parent.memo, <<name>>),
                          raised |-> FALSE]
                    ELSE [path |-> SomePath(JoinPath(parent.path.segs, name)),
                          memo |-> put(parent.memo, JoinPath(parent.path.segs, name)),
                          raised |-> FALSE]
            ELSE [path |-> SomePath(<<name>>), memo |-> put(memo, <<name>>),
                  raised |-> FALSE]

S_parent_id == <<112, 97, 114, 101, 110, 116, 95, 105, 100>>
S_type == <<116, 121, 112, 101>>

\* one entry of folders.json
FolderManifestEntry(folder_id, payload, segs) ==
    VObj(<<KV(S_idfield, VStr(folder_id)), KV(S_name, DictGet(payload, S_name)),
           KV(S_parent_id, DictGet(payload, S_folder)), KV(S_path, VStr(PathStr(segs))),
           KV(S_type, DictGet(payload, S_type))>>)

(***************************************************************************)
(* RecordPlacer                                                            *)
(***************************************************************************)
\* rec_id of _place_records
PlacedId(rec) == IF Strip(rec.id) = <<>> THEN S_unknown ELSE Strip(rec.id)

\* file_name of _place_records
PlacedFileName(rec) ==
    RecordTitle(rec.value, PlacedId(rec)) \o S_uu \o SafeName(PlacedId(rec)) \o S_json

\* the folder id a record's value refers to, <<>> when it refers to none
FolderRef(rec) ==
    IF IsDict(rec.value) /\ IsStr(DictGet(rec.value, S_folder))
    THEN DictGet(rec.value, S_folder).s
    ELSE <<>>

\* rel_path of _place_records, given the resolved folder path
PlacedPath(rec, folder_rel) ==
    LET rel_dir == IF folder_rel.none THEN <<rec.root>>
                   ELSE <<S_tree>> \o folder_rel.segs \o <<rec.root>>
    IN PathStr(Append(rel_dir, PlacedFileName(rec)))

\* one entry of the manifest's records
ManifestEntry(rec, rel_path) ==
    VObj(<<KV(S_key, rec.key), KV(S_root, VStr(rec.root)),
           KV(S_idfield, VStr(PlacedId(rec))), KV(S_path, VStr(rel_path))>>)

S_schema_version == <<115, 99, 104, 101, 109, 97, 95, 118, 101, 114, 115, 105, 111, 110>>
S_leveldb_meta == <<108, 101, 118, 101, 108, 100, 98, 95, 109, 101, 116, 97>>
S_records == <<114, 101, 99, 111, 114, 100, 115>>
S_source_dir == <<115, 111, 117, 114, 99, 101, 95, 100, 105, 114>>
S_comparator == <<99, 111, 109, 112, 97, 114, 97, 116, 111, 114>>

\* manifest.json
ManifestJson(leveldb_meta, manifest) ==
    VObj(<<KV(S_schema_version, VNum(2)), KV(S_leveldb_meta, leveldb_meta),
           KV(S_records, VArr(manifest))>>)

\* _collect_leveldb_meta: the fields the rebuild reads, and the directory
\* name; comparator is None when the store's MANIFEST names none
CollectLeveldbMeta(db, store) ==
    VObj(<<KV(S_source_dir, VStr(db)), KV(S_comparator, store.comparator)>>)

\* grouped: the records of each root, in scan order
Grouped(records, root) == SelectSeq(records, LAMBDA r : r.root = root)

\* the <root>.json files written last, in the order of their roots
RECURSIVE WriteGrouped(_, _, _)
WriteGrouped(files, records, roots) ==
    IF roots = <<>> THEN files
    ELSE WriteGrouped(
            WriteFile(files, Head(roots) \o S_json,
                      DumpsIndent(VArr([i \in DOMAIN Grouped(records, Head(roots)) |->
                                           RecordJson(Grouped(records, Head(roots))[i])]))),
            records, Tail(roots))

(***************************************************************************)
(* RebuildEngine: helpers of rebuild_leveldb_from_json.py                  *)
(***************************************************************************)
\* the order of Path objects: segment by segment
RECURSIVE PartsLess(_, _)
PartsLess(x, y) ==
    IF y = <<>> THEN FALSE
    ELSE IF x = <<>> THEN TRUE
    ELSE IF Head(x) # Head(y) THEN SeqLess(Head(x), Head(y))
    ELSE PartsLess(Tail(x), Tail(y))

\* sorted(paths) for a set of str(path)
RECURSIVE SortedPaths(_)
SortedPaths(S) ==
    IF S = {} THEN <<>>
    ELSE LET m == CHOOSE x \in S : \A y \in S \ {x} : PartsLess(PathParts(x), PathParts(y))
         IN <<m>> \o SortedPaths(S \ {m})

EndsWith(s, suffix) ==
    Len(s) >= Len(suffix) /\ SubSeq(s, Len(s) - Len(suffix) + 1, Len(s)) = suffix

\* path.name and path.stem of a *.json file
PathName(p) == PathParts(p)[Len(PathParts(p))]
PathStem(p) == SubSeq(PathName(p), 1, Len(PathName(p)) - Len(S_json))

\* path.with_name(name)
WithName(p, name) ==
    PathStr(Append(SubSeq(PathParts(p), 1, Len(PathParts(p)) - 1), name))

\* the positions at which "__" occurs in stem
UUAt(stem) == {i \in 1..(Len(stem) - 1) : stem[i] = Under /\ stem[i + 1] = Under}

\* stem.rsplit("__", 1)[-1], for a stem that contains "__"
AfterLastUU(stem) ==
    LET i == CHOOSE k \in UUAt(stem) : \A j \in UUAt(stem) : j <= k
    IN SubFrom(stem, i + 2)

\* _excluded_json_names
ExcludedJsonNames == {S_full_json, S_folders_json, S_manifest_json}

\* _infer_root_from_path: <<>> is None
InferRootFromPath(parts) ==
    IF parts = <<>> THEN <<>>
    ELSE IF parts[1] = S_tree
    THEN IF Len(parts) < 3 THEN <<>> ELSE parts[Len(parts) - 1]
    ELSE IF StartsWith(parts[1], <<Under>>) THEN <<>>
    ELSE parts[1]

\* _infer_id
InferId(value, rel) ==
    IF IsDict(value) /\ IsNonBlankStr(DictGet(value, S_id)) THEN Strip(DictGet(value, S_id).s)
    ELSE IF UUAt(PathStem(rel)) # {} /\ AfterLastUU(PathStem(rel)) # <<>>
    THEN AfterLastUU(PathStem(rel))
    ELSE SafeName(PathStem(rel))

\* _filename_has_id
FilenameHasId(rel) == UUAt(PathStem(rel)) # {} /\ AfterLastUU(PathStem(rel)) # <<>>

\* _extract_id_from_key: <<>> is None
ExtractIdFromKey(key) ==
    LET parts == Split(key, Bang)
    IN IF ~StartsWith(key, <<Bang>>) THEN <<>>
       ELSE IF Len(parts) < 3 THEN <<>>
       ELSE Strip(parts[3])

\* the number of ids _random_id can draw, standing for 62^16
NumRandomIds == 3

\* the n-th 16-character alphanumeric candidate of _random_id
RandomIdN(n) == [k \in 1..16 |-> IF k = 16 THEN 48 + n ELSE 103]

RandomIds == {RandomIdN(n) : n \in 1..NumRandomIds}

\* _random_id: the candidates it can return
RandomId_IgnoreUsed(used_ids) == RandomIds

RandomId(used_ids) == RandomIds \ used_ids

S_stats == <<95, 115, 116, 97, 116, 115>>
S_compendiumSource ==
    <<99, 111, 109, 112, 101, 110, 100, 105, 117, 109, 83, 111, 117, 114, 99, 101>>

DotsAt(s) == {i \in DOMAIN s : s[i] = Dot}

ReplaceCompendiumSourceId_Keeps(stats, new_id) == stats

\* _replace_compendium_source_id: the stats dict afterwards
ReplaceCompendiumSourceId(stats, new_id) ==
    LET source == DictGet(stats, S_compendiumSource)
    IN IF ~IsStr(source) \/ source.s = <<>> THEN stats
       ELSE IF DotsAt(source.s) # {}
       THEN LET i == CHOOSE k \in DotsAt(source.s) : \A j \in DotsAt(source.s) : j <= k
            IN DictSet(stats, S_compendiumSource,
                       VStr(SubSeq(source.s, 1, i - 1) \o <<Dot>> \o new_id))
       ELSE DictSet(stats, S_compendiumSource, VStr(new_id))

\* value["_id"] = new_id and the _stats back-reference, as _build_new_records
\* stamps them
StampId(value, new_id) ==
    LET withId == DictSet(value, S_id, VStr(new_id))
        stats == DictGet(withId, S_stats)
    IN IF IsDict(stats) THEN DictSet(withId, S_stats, ReplaceCompendiumSourceId(stats, new_id))
       ELSE withId

\* _record_files_for_new_entries: the pending files, sorted, as a list
RecordFilesForNewEntries(files, known_paths) ==
    SortedPaths({p \in DOMAIN files :
                   /\ EndsWith(PathName(p), S_json)
                   /\ Len(PathParts(p)) > 1
                   /\ PathName(p) \notin ExcludedJsonNames
                   /\ p \notin known_paths
                   /\ InferRootFromPath(PathParts(p)) # <<>>})

\* _load_manifest: ok = FALSE is the JSONDecodeError of _read_json
LoadManifest(files) ==
    LET dicts(list) == SelectSeq(list, IsDict)
        none == [ok |-> TRUE, records |-> <<>>, leveldb_meta |-> VObj(<<>>)]
        wrapped(records, meta) ==
            [ok |-> TRUE,
             records |-> IF records.t = "arr" THEN dicts(records.a) ELSE <<>>,
             leveldb_meta |-> IF IsDict(meta) THEN meta ELSE VObj(<<>>)]
        from(r) ==
            IF ~r.ok THEN [ok |-> FALSE, records |-> <<>>, leveldb_meta |-> VObj(<<>>)]
            ELSE IF r.v.t = "arr"
            THEN [ok |-> TRUE, records |-> dicts(r.v.a), leveldb_meta |-> VObj(<<>>)]
            ELSE IF r.v.t = "obj"
            THEN wrapped(DictGet(r.v, S_records), DictGet(r.v, S_leveldb_meta))
            ELSE none
    IN IF S_manifest_json \notin DOMAIN files THEN none
       ELSE from(Loads(files[S_manifest_json]))

\* known_paths of rebuild_all
KnownPaths(manifest) ==
    {DictGet(manifest[i], S_path).s :
        i \in {j \in DOMAIN manifest : IsStr(DictGet(manifest[j], S_path))}}

\* used_ids of rebuild_all, as seeded from the manifest's keys
SeedUsedIds(manifest) ==
    {ExtractIdFromKey(DictGet(manifest[i], S_key).s) :
        i \in {j \in DOMAIN manifest : IsStr(DictGet(manifest[j], S_key))}} \ {<<>>}

\* _build_known_records, "Skipping missing record file": the entry yields
\* no record and the loop goes on
MissingRecordFile_Raises(value_path) == [ok |-> FALSE, records |-> <<>>]

MissingRecordFile(value_path) == [ok |-> TRUE, records |-> <<>>]

\* _build_known_records, the body of its loop for one manifest entry:
\* ok = FALSE is an exception of _read_json or _encode_value
KnownRecord(files, item) ==
    LET encoded(key, enc) ==
            [ok |-> enc.ok,
             records |-> IF enc.ok THEN <<[key |-> key.s, value |-> enc.b]>> ELSE <<>>]
        read(key, value) ==
            IF ~value.ok THEN [ok |-> FALSE, records |-> <<>>]
            ELSE encoded(key, EncodeValue(value.v))
        entry(key, rel_path) ==
            IF ~IsStr(key) \/ ~IsStr(rel_path) THEN [ok |-> TRUE, records |-> <<>>]
            ELSE IF rel_path.s \notin DOMAIN files THEN MissingRecordFile(rel_path.s)
            ELSE read(key, Loads(files[rel_path.s]))
    IN entry(DictGet(item, S_key), DictGet(item, S_path))

\* _build_known_records: ok = FALSE is an exception raised by an entry
RECURSIVE BuildKnownRecords(_, _, _)
BuildKnownRecords(files, manifest, acc) ==
    LET next(r) == IF ~r.ok THEN [ok |-> FALSE, records |-> acc]
                   ELSE BuildKnownRecords(files, Tail(manifest), acc \o r.records)
    IN IF manifest = <<>> THEN [ok |-> TRUE, records |-> acc]
       ELSE next(KnownRecord(files, Head(manifest)))

NoRows == [k \in {} |-> <<>>]

\* merged of rebuild_all: known records first, then new records
RECURSIVE MergeInto(_, _)
MergeInto(merged, records) ==
    IF records = <<>> THEN merged
    ELSE MergeInto([k \in DOMAIN merged \cup {Head(records).key} |->
                      IF k = Head(records).key THEN Head(records).value ELSE merged[k]],
                   Tail(records))

Merge_NewFirst(known_records, new_records) ==
    MergeInto(MergeInto(NoRows, new_records), known_records)

Merge(known_records, new_records) == MergeInto(MergeInto(NoRows, known_records), new_records)

\* the writer.put loop: the store's rows after every merged entry is put
PutAll(merged) ==
    [b \in {Utf8Encode(k) : k \in DOMAIN merged} |->
        merged[CHOOSE k \in DOMAIN merged : Utf8Encode(k) = b]]

\* _snapshot_db: rows by decoded key, in the store's order
RECURSIVE SnapshotAcc(_, _, _)
SnapshotAcc(rows, keys, acc) ==
    IF keys = <<>> THEN acc
    ELSE LET d == Utf8Decode(Head(keys))
             k == IF d.ok THEN d.s ELSE B64Encode(Head(keys))
         IN SnapshotAcc(rows, Tail(keys),
                        [x \in DOMAIN acc \cup {k} |->
                           IF x = k THEN rows[Head(keys)] ELSE acc[x]])

SnapshotDb(rows) == SnapshotAcc(rows, SortedSeq(DOMAIN rows), NoRows)

ValuesDiffer_BytesOnly(left, right) == left # right

\* _values_differ
ValuesDiffer(left, right) ==
    IF left = right THEN FALSE ELSE ~ValEq(DecodeValue(left), DecodeValue(right))

\* _print_db_diff: the three sets it reports
DbDiff(source_rows, rebuilt_rows) ==
    [added |-> DOMAIN rebuilt_rows \ DOMAIN source_rows,
     removed |-> DOMAIN source_rows \ DOMAIN rebuilt_rows,
     changed |-> {k \in DOMAIN source_rows \cap DOMAIN rebuilt_rows :
                    ValuesDiffer(source_rows[k], rebuilt_rows[k])}]

(***************************************************************************)
(* State                                                                   *)
(***************************************************************************)
VARIABLES
    codec,      \* one ValueCodec round trip: the input and each stage's result
    env,        \* which store bindings import, which stores cannot be written
    inRoot,     \* the source stores under in_root, by directory name
    outRoot,    \* the files under out_root, by store directory
    deployRoot, \* the rebuilt stores under deploy_root, by directory name
    dump,       \* dump_all: its position, its locals and those of _place_records
    rb,         \* rebuild_all: its position and its locals
    edits       \* the number of manual edits made to the output tree

vars == <<codec, env, inRoot, outRoot, deployRoot, dump, rb, edits>>

(***************************************************************************)
(* SpecCodec: _encode_value and _decode_value applied in turn to a value   *)
(* of CodecValues or to a byte string of CodecBytes                        *)
(***************************************************************************)
CodecValues ==
    { VStr(<<97,98,99>>),                          \* 'abc'
      VStr(<<>>),                                  \* ''
      VStr(<<49>>),                                \* '1'
      VStr(<<32,49>>),                             \* ' 1'
      VStr(<<34,49,34>>),                          \* '"1"'
      VStr(<<91,49,44,32,50,93>>),                 \* '[1, 2]'
      VStr(<<123,34,97,34,58,32,49,125>>),         \* '{"a": 1}'
      VStr(<<110,117,108,108>>),                   \* 'null'
      VStr(<<233>>),                               \* 'é'
      VStr(<<97,32,98>>),                          \* 'a b'
      VObj(<<KV(S_base64, VStr(<<47,119,61,61>>))>>),   \* {'base64': '/w=='}
      VObj(<<KV(S_base64, VStr(<<65,65,72,43>>))>>),    \* {'base64': 'AAH+'}
      VObj(<<KV(S_base64, VStr(<<73,68,69,61>>))>>),    \* {'base64': 'IDE='}
      VObj(<<KV(S_base64, VStr(<<89,81,61,61>>))>>),    \* {'base64': 'YQ=='}
      VObj(<<>>),                                  \* {}
      VObj(<<KV(S_id, VStr(<<105,49>>)), KV(S_name, VStr(<<83,119,111,114,100>>))>>),
                                                   \* {'_id': 'i1', 'name': 'Sword'}
      VObj(<<KV(<<97>>, VArr(<<VNum(1), VNum(2)>>))>>),  \* {'a': [1, 2]}
      VObj(<<KV(S_base64, VNum(1))>>),             \* {'base64': 1}
      VObj(<<KV(<<110>>, VNull), KV(<<116>>, VBool(TRUE))>>),  \* {'n': None, 't': True}
      VArr(<<>>),                                  \* []
      VArr(<<VNum(1), VStr(<<97>>)>>),             \* [1, 'a']
      VArr(<<VArr(<<VNum(1)>>)>>),                 \* [[1]]
      VArr(<<VStr(<<120,34,121>>)>>),              \* ['x"y']
      VNull, VBool(TRUE), VBool(FALSE), VNum(0), VNum(7), VNum(-3), VNum(12) }

\* byte strings that are not UTF-8
CodecBytes ==
    { <<255>>, <<0,1,254>>, <<195>>, <<97,255,98>>, <<192,128>>, <<226,130>>,
      <<237,160,128>>, <<128,123,125>> }

CodecStart(kind, v, raw) ==
    [pc |-> "start", kind |-> kind, v |-> v, raw |-> raw,
     enc |-> <<>>, dec |-> VNull, out |-> <<>>]

CodecIdle == codec = CodecStart("none", VNull, <<>>)

\* encode(v)
CodecEncode ==
    /\ codec.pc = "start" /\ codec.kind = "value"
    /\ LET r == EncodeValue(codec.v)
       IN codec' = IF r.ok THEN [codec EXCEPT !.pc = "encoded", !.enc = r.b]
                   ELSE [codec EXCEPT !.pc = "raised"]
    /\ UNCHANGED <<env, inRoot, outRoot, deployRoot, dump, rb, edits>>

\* decode(encode(v)), or decode(b) for an input byte string
CodecDecode ==
    /\ \/ codec.pc = "encoded"
       \/ codec.pc = "start" /\ codec.kind = "bytes"
    /\ codec' = [codec EXCEPT !.pc = "decoded",
                              !.dec = DecodeValue(IF codec.kind = "value" THEN codec.enc
                                                  ELSE codec.raw)]
    /\ UNCHANGED <<env, inRoot, outRoot, deployRoot, dump, rb, edits>>

\* encode(decode(...))
CodecReencode ==
    /\ codec.pc = "decoded"
    /\ LET r == EncodeValue(codec.dec)
       IN codec' = IF r.ok THEN [codec EXCEPT !.pc = "reencoded", !.out = r.b]
                   ELSE [codec EXCEPT !.pc = "raised"]
    /\ UNCHANGED <<env, inRoot, outRoot, deployRoot, dump, rb, edits>>

(***************************************************************************)
(* DumpEngine: dump_all                                                    *)
(***************************************************************************)
EmptyIndex == [f \in {} |-> VNull]
EmptyMemo == [f \in {} |-> <<>>]

\* ldb_files as the directory of each file: sorted by directory, then name
RECURSIVE LdbFilesOf(_, _)
LdbFilesOf(stores, dbs) ==
    IF dbs = <<>> THEN <<>>
    ELSE [k \in 1..stores[Head(dbs)].ldbs |-> Head(dbs)] \o LdbFilesOf(stores, Tail(dbs))

DiscoverLdbFiles(stores) == LdbFilesOf(stores, SortedSeq(DOMAIN stores))

DumpStart(parse_json_values) ==
    [pc |-> "start", parse |-> parse_json_values, ldb_files |-> <<>>, i |-> 0,
     processed |-> {}, db |-> <<>>, records |-> <<>>, folder_by_id |-> EmptyIndex,
     folder_paths |-> EmptyMemo, queue |-> <<>>, folder_manifest |-> <<>>,
     manifest |-> <<>>, rpos |-> 0, exit |-> "none", error |-> "none"]

DumpIdle == dump = [DumpStart(TRUE) EXCEPT !.pc = "off"]

\* dump_all up to the loop: no importable backend raises
\* LevelDBUnavailableError; "No .ldb files found" returns 1
DumpDiscover ==
    /\ dump.pc = "start"
    /\ LET files == DiscoverLdbFiles(inRoot)
       IN dump' = IF ~env.plyvel /\ ~env.leveldb
                  THEN [dump EXCEPT !.pc = "exit", !.exit = "exception",
                                    !.error = "LevelDBUnavailableError"]
                  ELSE IF files = <<>> THEN [dump EXCEPT !.pc = "exit", !.exit = "1"]
                  ELSE [dump EXCEPT !.pc = "loop", !.ldb_files = files, !.i = 1]
    /\ UNCHANGED <<codec, env, inRoot, outRoot, deployRoot, rb, edits>>

\* the end of the loop: the statistics are printed and dump_all returns 0
DumpReturn ==
    /\ dump.pc = "loop" /\ dump.i > Len(dump.ldb_files)
    /\ dump' = [dump EXCEPT !.pc = "exit", !.exit = "0"]
    /\ UNCHANGED <<codec, env, inRoot, outRoot, deployRoot, rb, edits>>

\* a further .ldb file of a directory already dumped
DumpSkipFile ==
    /\ dump.pc = "loop" /\ dump.i <= Len(dump.ldb_files)
    /\ dump.ldb_files[dump.i] \in dump.processed
    /\ dump' = [dump EXCEPT !.i = @ + 1]
    /\ UNCHANGED <<codec, env, inRoot, outRoot, deployRoot, rb, edits>>

\* one store: _extract_records, full.json, and the start of _place_records
\* (grouping and the folder index).  A store that cannot be opened raises
\* in the iterator and nothing catches it.
DumpReadStore ==
    /\ dump.pc = "loop" /\ dump.i <= Len(dump.ldb_files)
    /\ dump.ldb_files[dump.i] \notin dump.processed
    /\ LET db == dump.ldb_files[dump.i]
           place(records, index) ==
               /\ dump' = [dump EXCEPT !.pc = "folders", !.db = db, !.records = records,
                                       !.folder_by_id = index, !.folder_paths = EmptyMemo,
                                       !.queue = SortedSeq(DOMAIN index),
                                       !.folder_manifest = <<>>, !.manifest = <<>>,
                                       !.rpos = 1]
               /\ outRoot' = [d \in DOMAIN outRoot \cup {db} |->
                                IF d = db
                                THEN WriteFile(IF db \in DOMAIN outRoot THEN outRoot[db]
                                               ELSE NoFiles,
                                               S_full_json,
                                               DumpsIndent(VArr([k \in DOMAIN records |->
                                                                   RecordJson(records[k])])))
                                ELSE outRoot[d]]
           read(records) == place(records, BuildFolderIndex(Grouped(records, S_folders)))
       IN IF ~inRoot[db].openable
          THEN /\ dump' = [dump EXCEPT !.pc = "exit", !.exit = "exception", !.db = db,
                                       !.error = "OpenError"]
               /\ UNCHANGED outRoot
          ELSE read(ExtractRecords(inRoot[db].rows, dump.parse))
    /\ UNCHANGED <<codec, env, inRoot, deployRoot, rb, edits>>

\* _place_records, the folder loop: the path of the next folder id
DumpFolderPath ==
    /\ dump.pc = "folders" /\ dump.queue # <<>>
    /\ LET folder_id == Head(dump.queue)
           r == ComputeFolderPath(folder_id, dump.folder_by_id, dump.folder_paths, 0)
       IN dump' = IF r.raised
                  THEN [dump EXCEPT !.pc = "exit", !.exit = "exception",
                                    !.error = "RecursionError"]
                  ELSE [dump EXCEPT !.queue = Tail(@), !.folder_paths = r.memo,
                                    !.folder_manifest =
                                        IF r.path.none THEN @
                                        ELSE Append(@, FolderManifestEntry(folder_id,
                                                 dump.folder_by_id[folder_id], r.path.segs))]
    /\ UNCHANGED <<codec, env, inRoot, outRoot, deployRoot, rb, edits>>

\* _place_records: folders.json after the folder loop
DumpWriteFolders ==
    /\ dump.pc = "folders" /\ dump.queue = <<>>
    /\ dump' = [dump EXCEPT !.pc = "records"]
    /\ outRoot' = [outRoot EXCEPT ![dump.db] =
                      WriteFile(@, S_folders_json, DumpsIndent(VArr(dump.folder_manifest)))]
    /\ UNCHANGED <<codec, env, inRoot, deployRoot, rb, edits>>

\* _place_records, the record loop: the file and the manifest entry of the
\* next record
DumpPlaceRecord ==
    /\ dump.pc = "records" /\ dump.rpos <= Len(dump.records)
    /\ LET rec == dump.records[dump.rpos]
           r == IF FolderRef(rec) # <<>>
                THEN ComputeFolderPath(FolderRef(rec), dump.folder_by_id,
                                       dump.folder_paths, 0)
                ELSE [path |-> NoPath, memo |-> dump.folder_paths, raised |-> FALSE]
           rel_path == PlacedPath(rec, r.path)
       IN IF r.raised
          THEN /\ dump' = [dump EXCEPT !.pc = "exit", !.exit = "exception",
                                       !.error = "RecursionError"]
               /\ UNCHANGED outRoot
          ELSE /\ dump' = [dump EXCEPT !.rpos = @ + 1, !.folder_paths = r.memo,
                                       !.manifest = Append(@, ManifestEntry(rec, rel_path))]
               /\ outRoot' = [outRoot EXCEPT ![dump.db] =
                                 WriteFile(@, rel_path, DumpsIndent(rec.value))]
    /\ UNCHANGED <<codec, env, inRoot, deployRoot, rb, edits>>

\* _place_records: manifest.json and the grouped <root>.json files, then
\* the store counts as processed
DumpFinishStore ==
    /\ dump.pc = "records" /\ dump.rpos > Len(dump.records)
    /\ LET roots == SortedSeq({dump.records[k].root : k \in DOMAIN dump.records})
           withManifest ==
               WriteFile(outRoot[dump.db], S_manifest_json,
                         DumpsIndent(ManifestJson(CollectLeveldbMeta(dump.db, inRoot[dump.db]),
                                                  dump.manifest)))
       IN outRoot' = [outRoot EXCEPT ![dump.db] =
                         WriteGrouped(withManifest, dump.records, roots)]
    /\ dump' = [dump EXCEPT !.pc = "loop", !.i = @ + 1, !.processed = @ \cup {dump.db}]
    /\ UNCHANGED <<codec, env, inRoot, deployRoot, rb, edits>>

(***************************************************************************)
(* Manual edits between the dump and the rebuild                           *)
(***************************************************************************)
\* the number of files a user adds to an output tree
MaxEdits == 2

\* the files a user may add under a store's output directory
UserFiles ==
    { \* it/Copy__i1.json: {"_id": "i1", "name": "Copy"}
      [path |-> <<105,116,47,67,111,112,121,95,95,105,49>> \o S_json,
       text |-> <<123,34,95,105,100,34,58,32,34,105,49,34,44,32,34,110,97,109,101,34,58,32,
                  34,67,111,112,121,34,125>>],
      \* it/New.json: {"name": "New"}
      [path |-> <<105,116,47,78,101,119>> \o S_json,
       text |-> <<123,34,110,97,109,101,34,58,32,34,78,101,119,34,125>>],
      \* it/Blank__x.json: {"name": "B", "_id": " "}
      [path |-> <<105,116,47,66,108,97,110,107,95,95,120>> \o S_json,
       text |-> <<123,34,110,97,109,101,34,58,32,34,66,34,44,32,34,95,105,100,34,58,32,
                  34,32,34,125>>],
      \* it/Plain.json: "text"
      [path |-> <<105,116,47,80,108,97,105,110>> \o S_json,
       text |-> <<34,116,101,120,116,34>>],
      \* it/Bad__b.json: {   (not JSON)
      [path |-> <<105,116,47,66,97,100,95,95,98>> \o S_json,
       text |-> <<123>>],
      \* _tree/F/it/T.json: {"name": "T", "_stats": {"compendiumSource": "C.it.old"}}
      [path |-> <<95,116,114,101,101,47,70,47,105,116,47,84>> \o S_json,
       text |-> <<123,34,110,97,109,101,34,58,32,34,84,34,44,32,34,95,115,116,97,116,115,34,
                  58,32,123,34,99,111,109,112,101,110,100,105,117,109,83,111,117,114,99,101,
                  34,58,32,34,67,46,105,116,46,111,108,100,34,125,125>>],
      \* it/New__ggggggggggggggg1.json: {"_id": "ggggggggggggggg1", "name": "Old"},
      \* a file whose id _random_id can draw
      [path |-> <<105,116,47,78,101,119,95,95>> \o RandomIdN(1) \o S_json,
       text |-> <<123,34,95,105,100,34,58,32,34>> \o RandomIdN(1)
                    \o <<34,44,32,34,110,97,109,101,34,58,32,34,79,108,100,34,125>>],
      \* misc/M.json: {"name": "M2"}
      [path |-> <<109,105,115,99,47,77>> \o S_json,
       text |-> <<123,34,110,97,109,101,34,58,32,34,77,50,34,125>>],
      \* notes.json at the top level: []
      [path |-> <<110,111,116,101,115>> \o S_json,
       text |-> <<91,93>>] }

\* a user creates a new file in the output tree of a dumped store
UserAddFile ==
    /\ dump.pc = "exit" /\ rb.pc = "start" /\ rb.pass = 1
    /\ edits < MaxEdits
    /\ \E db \in DOMAIN outRoot, f \in UserFiles :
          /\ f.path \notin DOMAIN outRoot[db]
          /\ outRoot' = [outRoot EXCEPT ![db] = WriteFile(@, f.path, f.text)]
    /\ edits' = edits + 1
    /\ UNCHANGED <<codec, env, inRoot, deployRoot, dump, rb>>

\* a user deletes from the output tree of a dumped store a record file
\* that its manifest names
UserRemoveFile ==
    /\ dump.pc = "exit" /\ rb.pc = "start" /\ rb.pass = 1
    /\ edits < MaxEdits
    /\ \E db \in DOMAIN outRoot :
          \E path \in DOMAIN outRoot[db] \cap KnownPaths(LoadManifest(outRoot[db]).records) :
             outRoot' = [outRoot EXCEPT ![db] = [f \in DOMAIN @ \ {path} |-> @[f]]]
    /\ edits' = edits + 1
    /\ UNCHANGED <<codec, env, inRoot, deployRoot, dump, rb>>

(***************************************************************************)
(* RebuildEngine: rebuild_all                                              *)
(***************************************************************************)
NoStores == [d \in {} |-> <<>>]

RebuildStart ==
    [pc |-> "start", db_dirs |-> <<>>, i |-> 0, db |-> <<>>, backend |-> "none",
     manifest |-> <<>>, leveldb_meta |-> VObj(<<>>), known_paths |-> {}, used_ids |-> {},
     known_records |-> <<>>, pending |-> <<>>, new_records |-> <<>>, merged |-> NoRows,
     failed |-> FALSE, diff |-> [added |-> {}, removed |-> {}, changed |-> {}],
     folders_processed |-> 0, files_processed |-> 0, exit |-> "none", error |-> "none",
     allocated |-> <<>>, processed |-> <<>>,
     pass |-> 1, first |-> [edits |-> 0, out |-> NoStores, deploy |-> NoStores]]

RebuildIdle == rb = [RebuildStart EXCEPT !.pc = "off"]

\* rebuild_all up to the loop: "No DB directories found" returns 1; no
\* importable backend raises LevelDBUnavailableError
RebuildDiscover ==
    /\ rb.pc = "start" /\ dump.pc = "exit"
    /\ LET db_dirs == SortedSeq(DOMAIN outRoot)
       IN rb' = IF db_dirs = <<>> THEN [rb EXCEPT !.pc = "exit", !.exit = "1"]
                ELSE IF ~env.plyvel /\ ~env.leveldb
                THEN [rb EXCEPT !.pc = "exit", !.exit = "exception",
                                !.error = "LevelDBUnavailableError"]
                ELSE [rb EXCEPT !.pc = "loop", !.db_dirs = db_dirs, !.i = 1]
    /\ UNCHANGED <<codec, env, inRoot, outRoot, deployRoot, dump, edits>>

\* the end of the loop: the statistics are printed and rebuild_all returns 0
RebuildReturn ==
    /\ rb.pc = "loop" /\ rb.i > Len(rb.db_dirs)
    /\ rb' = [rb EXCEPT !.pc = "exit", !.exit = "0"]
    /\ UNCHANGED <<codec, env, inRoot, outRoot, deployRoot, dump, edits>>

\* the tool is run once more after a run that returned 0; the output tree
\* and the stores the first run left are remembered for comparison
RebuildAgain ==
    /\ rb.pc = "exit" /\ rb.exit = "0" /\ rb.pass = 1
    /\ rb' = [RebuildStart EXCEPT !.pass = 2,
                                  !.first = [edits |-> edits, out |-> outRoot,
                                             deploy |-> deployRoot]]
    /\ UNCHANGED <<codec, env, inRoot, outRoot, deployRoot, dump, edits>>

\* LevelDBWriter._open: plyvel if it imports and opens the store, else
\* leveldb if it imports and opens the store, else "none" for
\* LevelDBUnavailableError
WriterBackend(db) ==
    IF env.plyvel /\ db \notin env.unwritable THEN "plyvel"
    ELSE IF env.leveldb /\ db \notin env.unwritable THEN "leveldb"
    ELSE "none"

\* one store: the old deployment is removed and LevelDBWriter opens a
\* fresh store; its exception is raised before the try block
RebuildOpenWriter ==
    /\ rb.pc = "loop" /\ rb.i <= Len(rb.db_dirs)
    /\ LET db == rb.db_dirs[rb.i]
           backend == WriterBackend(db)
       IN IF backend = "none"
          THEN /\ rb' = [rb EXCEPT !.pc = "exit", !.exit = "exception", !.db = db,
                                   !.error = "WriterOpenError"]
               /\ deployRoot' = [d \in DOMAIN deployRoot \ {db} |-> deployRoot[d]]
          ELSE /\ rb' = [rb EXCEPT !.pc = "manifest", !.db = db, !.backend = backend,
                                   !.manifest = <<>>, !.leveldb_meta = VObj(<<>>),
                                   !.known_paths = {}, !.used_ids = {},
                                   !.known_records = <<>>, !.pending = <<>>,
                                   !.new_records = <<>>, !.merged = NoRows,
                                   !.failed = FALSE, !.error = "none",
                                   !.allocated = <<>>, !.processed = <<>>]
               /\ deployRoot' = [d \in DOMAIN deployRoot \cup {db} |->
                                   IF d = db THEN [rows |-> NoRows, open |-> TRUE]
                                   ELSE deployRoot[d]]
    /\ UNCHANGED <<codec, env, inRoot, outRoot, dump, edits>>

\* _load_manifest, known_paths and used_ids
RebuildLoadManifest ==
    /\ rb.pc = "manifest"
    /\ LET load(m) ==
               rb' = IF ~m.ok
                     THEN [rb EXCEPT !.pc = "finally", !.failed = TRUE,
                                     !.error = "RecordError"]
                     ELSE [rb EXCEPT !.pc = "known", !.manifest = m.records,
                                     !.leveldb_meta = m.leveldb_meta,
                                     !.known_paths = KnownPaths(m.records),
                                     !.used_ids = SeedUsedIds(m.records)]
       IN load(LoadManifest(outRoot[rb.db]))
    /\ UNCHANGED <<codec, env, inRoot, outRoot, deployRoot, dump, edits>>

\* _build_known_records
RebuildKnownRecords ==
    /\ rb.pc = "known"
    /\ LET r == BuildKnownRecords(outRoot[rb.db], rb.manifest, <<>>)
       IN rb' = IF ~r.ok
                THEN [rb EXCEPT !.pc = "finally", !.failed = TRUE, !.error = "RecordError"]
                ELSE [rb EXCEPT !.pc = "scan", !.known_records = r.records]
    /\ UNCHANGED <<codec, env, inRoot, outRoot, deployRoot, dump, edits>>

\* _build_new_records: the list of pending files, taken once
RebuildScanNewFiles ==
    /\ rb.pc = "scan"
    /\ rb' = [rb EXCEPT !.pc = "new",
                        !.pending = RecordFilesForNewEntries(outRoot[rb.db], rb.known_paths)]
    /\ UNCHANGED <<codec, env, inRoot, outRoot, deployRoot, dump, edits>>

\* path.rename(new_path): replaces a file already at new_path
RenameFile(files, p, q) ==
    [x \in (DOMAIN files \ {p}) \cup {q} |-> IF x = q THEN files[p] ELSE files[x]]

\* the body of the loop of _build_new_records for the file at path, when
\* _random_id returns new_id (<<>> when the file needs no id).  ok = FALSE
\* is an exception of _read_json or _encode_value.
NewRecordStep(files, path, used_ids, new_id) ==
    LET root == InferRootFromPath(PathParts(path))
        failed == [ok |-> FALSE, path |-> path, files |-> files, used_ids |-> used_ids,
                   records |-> <<>>]
        record(changed, new_path, written, rec_id, enc) ==
            [ok |-> enc.ok,
             path |-> new_path,
             files |-> written,
             used_ids |-> used_ids \cup (IF changed THEN {new_id} ELSE {}) \cup {rec_id},
             records |-> IF enc.ok
                         THEN <<[key |-> <<Bang>> \o root \o <<Bang>> \o rec_id,
                                 value |-> enc.b]>>
                         ELSE <<>>]
        write(rename, changed, new_path, stamped) ==
            record(changed,
                   new_path,
                   IF changed
                   THEN WriteFile(IF rename THEN RenameFile(files, path, new_path) ELSE files,
                                  new_path, DumpsIndent(stamped))
                   ELSE files,
                   InferId(stamped, new_path),
                   EncodeValue(stamped))
        stamp(value, rename, create) ==
            write(rename,
                  rename \/ create,
                  IF rename THEN WithName(path, PathStem(path) \o S_uu \o new_id \o S_json)
                  ELSE path,
                  IF IsDict(value) /\ (rename \/ create) THEN StampId(value, new_id)
                  ELSE value)
        inspect(value, rename) ==
            stamp(value, rename,
                  ~rename /\ IsDict(value) /\ ~IsNonBlankStr(DictGet(value, S_id)))
        step(read) == IF ~read.ok THEN failed ELSE inspect(read.v, ~FilenameHasId(path))
    IN step(IF path \in DOMAIN files THEN Loads(files[path])
            ELSE [ok |-> FALSE, v |-> VNull])

\* whether the loop body calls _random_id for the file at path
NeedsNewId(files, path) ==
    LET missing(value) == IsDict(value) /\ ~IsNonBlankStr(DictGet(value, S_id))
        needs(read) == read.ok /\ (~FilenameHasId(path) \/ missing(read.v))
    IN path \in DOMAIN files /\ needs(Loads(files[path]))

\* _build_new_records: the next pending file
RebuildNewFile ==
    /\ rb.pc = "new" /\ rb.pending # <<>>
    /\ LET step(needs, new_id, r) ==
               /\ outRoot' = [outRoot EXCEPT ![rb.db] = r.files]
               /\ rb' = IF ~r.ok
                        THEN [rb EXCEPT !.pc = "finally", !.failed = TRUE,
                                        !.error = "RecordError",
                                        !.used_ids = r.used_ids,
                                        !.allocated = IF needs THEN Append(@, new_id) ELSE @]
                        ELSE [rb EXCEPT !.pending = Tail(@), !.used_ids = r.used_ids,
                                        !.new_records = @ \o r.records,
                                        !.processed = Append(@, r.path),
                                        !.allocated = IF needs THEN Append(@, new_id) ELSE @]
           draw(needs) ==
               \E new_id \in (IF needs THEN RandomId(rb.used_ids) ELSE {<<>>}) :
                  step(needs, new_id,
                       NewRecordStep(outRoot[rb.db], Head(rb.pending), rb.used_ids, new_id))
       IN draw(NeedsNewId(outRoot[rb.db], Head(rb.pending)))
    /\ UNCHANGED <<codec, env, inRoot, deployRoot, dump, edits>>

\* the merge and the writer.put loop; a put that fails raises
RebuildMergeAndWrite ==
    /\ rb.pc = "new" /\ rb.pending = <<>>
    /\ LET merged == Merge(rb.known_records, rb.new_records)
       IN IF env.put_fails /\ DOMAIN merged # {}
          THEN /\ rb' = [rb EXCEPT !.pc = "finally", !.failed = TRUE, !.merged = merged,
                                   !.error = "PutError",
                                   !.files_processed =
                                       @ + Len(rb.known_records) + Len(rb.new_records)]
               /\ UNCHANGED deployRoot
          ELSE /\ rb' = [rb EXCEPT !.pc = "finally", !.merged = merged,
                                   !.files_processed =
                                       @ + Len(rb.known_records) + Len(rb.new_records)]
               /\ deployRoot' = [deployRoot EXCEPT ![rb.db].rows = PutAll(merged)]
    /\ UNCHANGED <<codec, env, inRoot, outRoot, dump, edits>>

\* LevelDBWriter.close: closes the store of the plyvel backend only
WriterClose(store, backend) ==
    IF backend = "plyvel" THEN [store EXCEPT !.open = FALSE] ELSE store

\* the finally block: writer.close(), then an exception in flight leaves
\* rebuild_all
RebuildClose ==
    /\ rb.pc = "finally"
    /\ deployRoot' = [deployRoot EXCEPT ![rb.db] = WriterClose(@, rb.backend)]
    /\ rb' = IF rb.failed THEN [rb EXCEPT !.pc = "exit", !.exit = "exception"]
             ELSE [rb EXCEPT !.pc = "snapshot"]
    /\ UNCHANGED <<codec, env, inRoot, outRoot, dump, edits>>

\* the two _snapshot_db calls and _print_db_diff.  Opening a store raises
\* when it cannot be read or while another handle holds its lock.
RebuildSnapshotAndDiff ==
    /\ rb.pc = "snapshot"
    /\ LET has_source == rb.db \in DOMAIN inRoot
           source_rows == IF has_source THEN SnapshotDb(inRoot[rb.db].rows) ELSE NoRows
           rebuilt_rows == SnapshotDb(deployRoot[rb.db].rows)
       IN rb' = IF (has_source /\ ~inRoot[rb.db].openable) \/ deployRoot[rb.db].open
                THEN [rb EXCEPT !.pc = "exit", !.exit = "exception",
                                !.error = "SnapshotOpenError"]
                ELSE [rb EXCEPT !.pc = "loop", !.i = @ + 1,
                                !.diff = DbDiff(source_rows, rebuilt_rows),
                                !.folders_processed = @ + 1]
    /\ UNCHANGED <<codec, env, inRoot, outRoot, deployRoot, dump, edits>>

(***************************************************************************)
(* Input stores                                                            *)
(***************************************************************************)
K_folder_f1 == <<33,102,111,108,100,101,114,115,33,102,49>>    \* b'!folders!f1'
K_item_i1 == <<33,105,116,33,105,49>>                          \* b'!it!i1'
K_item_i1_x == <<33,105,116,33,105,49,33,120>>                 \* b'!it!i1!x'
K_item_a_dot_b == <<33,105,116,33,97,46,98>>                   \* b'!it!a.b'
K_item_a_under_b == <<33,105,116,33,97,95,98>>                 \* b'!it!a_b'
K_root_dot == <<33,105,46,116,33,105,49>>                      \* b'!i.t!i1'
K_root_under == <<33,105,95,116,33,105,49>>                    \* b'!i_t!i1'
K_plain == <<112,108,97,105,110>>                              \* b'plain'
K_binary == <<255,1>>                                          \* b'\xff\x01'

\* b'{"_id":"f1","name":"Root"}'
V_folder_f1 ==
    <<123,34,95,105,100,34,58,34,102,49,34,44,34,110,97,109,101,34,58,34,82,111,111,116,
      34,125>>
\* b'{"_id":"i1","name":"Sword","folder":"f1"}'
V_sword ==
    <<123,34,95,105,100,34,58,34,105,49,34,44,34,110,97,109,101,34,58,34,83,119,111,114,
      100,34,44,34,102,111,108,100,101,114,34,58,34,102,49,34,125>>
V_named == <<123,34,110,97,109,101,34,58,34,78,34,125>>        \* b'{"name":"N"}'
\* b'{"name": "N", "v": 2}'
V_named_spaced == <<123,34,110,97,109,101,34,58,32,34,78,34,44,32,34,118,34,58,32,50,125>>
V_text == <<104,101,108,108,111>>                              \* b'hello'
V_quoted_number == <<34,49,34>>                                \* b'"1"'
\* b'{"base64":"AAAA"}'
V_wrapper_shaped == <<123,34,98,97,115,101,54,52,34,58,34,65,65,65,65,34,125>>
V_not_utf8 == <<254,255>>                                      \* b'\xfe\xff'

\* the rows of a store from (key, value) pairs
RowsOf(pairs) == [k \in {p[1] : p \in pairs} |-> (CHOOSE p \in pairs : p[1] = k)[2]]

\* a readable store directory holding two .ldb files
StoreOf(rows) == [rows |-> rows, openable |-> TRUE, ldbs |-> 2, comparator |-> VNull]

S_w == <<119>>

OneStore(store) == [d \in {S_w} |-> store]

F_a == <<97>>
F_b == <<98>>
F_c == <<99>>
F_z == <<122>>

\* the folder ids of the graph stores, a parent "" standing for no parent
\* field, and z an id no folder has
GraphFolders == {F_a, F_b, F_c}
GraphParents == {<<>>, F_a, F_b, F_c, F_z}

\* b'!folders!<id>' -> {"_id": id, "name": NAME} with "folder": parent
FolderRow(id, parent) ==
    <<<<Bang>> \o S_folders \o <<Bang>> \o id,
      Utf8Encode(DumpsCompact(VObj(
          <<KV(S_id, VStr(id)), KV(S_name, VStr(<<id[1] - 32>>))>>
          \o (IF parent = <<>> THEN <<>> ELSE <<KV(S_folder, VStr(parent))>>))))>>

\* b'!it!i1' -> {"_id": "i1", "name": "S", "folder": ref}
ItemRow(ref) ==
    <<K_item_i1,
      Utf8Encode(DumpsCompact(VObj(
          <<KV(S_id, VStr(<<105, 49>>)), KV(S_name, VStr(<<83>>)), KV(S_folder, VStr(ref))>>)))>>

\* three folders with every choice of parents, and an item in folder c or
\* in the missing folder z
GraphStores ==
    {StoreOf(RowsOf({FolderRow(F_a, pa), FolderRow(F_b, pb), FolderRow(F_c, pc), ItemRow(ref)})) :
        pa \in GraphParents, pb \in GraphParents, pc \in GraphParents, ref \in {F_c, F_z}}

CollisionKeys ==
    {K_item_i1, K_item_i1_x, K_item_a_dot_b, K_item_a_under_b, K_root_dot, K_root_under,
     K_plain, K_binary}
CollisionValues == {V_named, V_named_spaced, V_text}

\* two entries with keys and titles that sanitise alike
CollisionStores ==
    {StoreOf(RowsOf({<<k1, v1>>, <<k2, v2>>})) :
        k1 \in CollisionKeys, k2 \in CollisionKeys, v1 \in CollisionValues,
        v2 \in CollisionValues}

(***************************************************************************)
(* Specifications                                                          *)
(***************************************************************************)

\* plyvel installed, every store writable
DefaultEnv == [plyvel |-> TRUE, leveldb |-> FALSE, unwritable |-> {}, put_fails |-> FALSE]

InitCodec ==
    /\ \/ \E v \in CodecValues : codec = CodecStart("value", v, <<>>)
       \/ \E b \in CodecBytes : codec = CodecStart("bytes", VNull, b)
    /\ env = DefaultEnv
    /\ inRoot = NoStores /\ outRoot = NoStores /\ deployRoot = NoStores
    /\ DumpIdle /\ RebuildIdle
    /\ edits = 0

NextCodec == CodecEncode \/ CodecDecode \/ CodecReencode

SpecCodec == InitCodec /\ [][NextCodec]_vars

\* the dump of one store
InitDump ==
    /\ CodecIdle
    /\ env = DefaultEnv
    /\ \E store \in GraphStores \cup CollisionStores : inRoot = OneStore(store)
    /\ outRoot = NoStores /\ deployRoot = NoStores
    /\ dump = DumpStart(TRUE)
    /\ RebuildIdle
    /\ edits = 0

NextDump ==
    \/ DumpDiscover
    \/ DumpReturn
    \/ DumpSkipFile
    \/ DumpReadStore
    \/ DumpFolderPath
    \/ DumpWriteFolders
    \/ DumpPlaceRecord
    \/ DumpFinishStore

SpecDump == InitDump /\ [][NextDump]_vars

\* b'{"name":"M"}'
V_named_m == <<123,34,110,97,109,101,34,58,34,77,34,125>>

\* the store of the worked example: a folder and an item in it
ExampleRows == RowsOf({<<K_folder_f1, V_folder_f1>>, <<K_item_i1, V_sword>>})

\* stores with one entry or two, of every kind of key and value
RoundTripStores ==
    {StoreOf(ExampleRows)}
    \cup {StoreOf(RowsOf({<<K_item_i1, v>>})) :
            v \in {V_sword, V_named, V_text, V_quoted_number, V_wrapper_shaped, V_not_utf8}}
    \cup {StoreOf(RowsOf({<<K_item_a_dot_b, V_named>>, <<k, v>>})) :
            k \in {K_item_a_under_b, K_plain, K_binary}, v \in {V_named, V_named_spaced}}

\* a store whose keys carry ids that _random_id can draw: a key without a
\* root segment and a key of the !root!id form
DrawnIdStores ==
    {StoreOf(RowsOf({<<RandomIdN(1), V_named_m>>,
                     <<<<Bang, 105, 116, Bang>> \o RandomIdN(2), V_named>>}))}

\* dump, manual edits and rebuild of one store
Init ==
    /\ CodecIdle
    /\ env = DefaultEnv
    /\ \E store \in RoundTripStores \cup DrawnIdStores : inRoot = OneStore(store)
    /\ outRoot = NoStores /\ deployRoot = NoStores
    /\ \E parse \in BOOLEAN : dump = DumpStart(parse)
    /\ rb = RebuildStart
    /\ edits = 0

Next ==
    \/ DumpDiscover
    \/ DumpReturn
    \/ DumpSkipFile
    \/ DumpReadStore
    \/ DumpFolderPath
    \/ DumpWriteFolders
    \/ DumpPlaceRecord
    \/ DumpFinishStore
    \/ UserAddFile
    \/ UserRemoveFile
    \/ RebuildDiscover
    \/ RebuildReturn
    \/ RebuildOpenWriter
    \/ RebuildLoadManifest
    \/ RebuildKnownRecords
    \/ RebuildScanNewFiles
    \/ RebuildNewFile
    \/ RebuildMergeAndWrite
    \/ RebuildClose
    \/ RebuildSnapshotAndDiff

Spec == Init /\ [][Next]_vars

\* dump, manual edits and two rebuilds of one store
InitTwice ==
    /\ CodecIdle
    /\ env = DefaultEnv
    /\ \E store \in DrawnIdStores \cup {StoreOf(ExampleRows)} : inRoot = OneStore(store)
    /\ outRoot = NoStores /\ deployRoot = NoStores
    /\ \E parse \in BOOLEAN : dump = DumpStart(parse)
    /\ rb = RebuildStart
    /\ edits = 0

NextTwice ==
    \/ DumpDiscover
    \/ DumpReturn
    \/ DumpSkipFile
    \/ DumpReadStore
    \/ DumpFolderPath
    \/ DumpWriteFolders
    \/ DumpPlaceRecord
    \/ DumpFinishStore
    \/ UserAddFile
    \/ UserRemoveFile
    \/ RebuildDiscover
    \/ RebuildReturn
    \/ RebuildAgain
    \/ RebuildOpenWriter
    \/ RebuildLoadManifest
    \/ RebuildKnownRecords
    \/ RebuildScanNewFiles
    \/ RebuildNewFile
    \/ RebuildMergeAndWrite
    \/ RebuildClose
    \/ RebuildSnapshotAndDiff

SpecTwice == InitTwice /\ [][NextTwice]_vars

S_p == <<112>>
S_q == <<113>>

\* two stores, each readable or not, for the dump
RunStores ==
    {[d \in {S_p, S_q} |->
        [rows |-> ExampleRows,
         openable |-> d \notin closed, ldbs |-> 2, comparator |-> VNull]] :
        closed \in {{}, {S_p}, {S_q}}}

\* which bindings import, which deployment directories cannot be opened
\* for writing, and whether a put fails
RunEnvs ==
    {[plyvel |-> TRUE, leveldb |-> FALSE, unwritable |-> {}, put_fails |-> FALSE],
     [plyvel |-> FALSE, leveldb |-> TRUE, unwritable |-> {}, put_fails |-> FALSE],
     [plyvel |-> TRUE, leveldb |-> TRUE, unwritable |-> {S_p}, put_fails |-> FALSE],
     [plyvel |-> TRUE, leveldb |-> FALSE, unwritable |-> {S_q}, put_fails |-> FALSE],
     [plyvel |-> TRUE, leveldb |-> FALSE, unwritable |-> {}, put_fails |-> TRUE],
     [plyvel |-> FALSE, leveldb |-> FALSE, unwritable |-> {}, put_fails |-> FALSE]}

\* a run over two stores, or none, in each environment
InitRun ==
    /\ CodecIdle
    /\ env \in RunEnvs
    /\ inRoot \in RunStores \cup {NoStores}
    /\ outRoot = NoStores /\ deployRoot = NoStores
    /\ dump = DumpStart(TRUE)
    /\ rb = RebuildStart
    /\ edits = 0

SpecRun == InitRun /\ [][Next]_vars

(***************************************************************************)
(* Claims                                                                  *)
(***************************************************************************)
\* C4: folder path resolution returns for every folder graph, cyclic ones
\* included; it never recurses without bound or crashes.
C4_ResolutionNeverCrashes == dump.error # "RecursionError"

\* the parent link _compute_folder_path follows from f, <<>> when it stops
FollowedParent(index, f) ==
    LET parent_id == DictGet(index[f], S_folder)
    IN IF IsStr(parent_id) /\ parent_id.s \in DOMAIN index /\ parent_id.s # f
       THEN parent_id.s ELSE <<>>

RECURSIVE ReachesTop(_, _, _)
ReachesTop(index, f, steps) ==
    IF FollowedParent(index, f) = <<>> THEN TRUE
    ELSE IF steps = 0 THEN FALSE
    ELSE ReachesTop(index, FollowedParent(index, f), steps - 1)

Acyclic(index) == \A f \in DOMAIN index : ReachesTop(index, f, Cardinality(DOMAIN index))

\* the chain c -> b -> a
IsChain(index) ==
    /\ DOMAIN index = GraphFolders
    /\ FollowedParent(index, F_c) = F_b
    /\ FollowedParent(index, F_b) = F_a
    /\ FollowedParent(index, F_a) = <<>>

\* C5: in an acyclic folder index the path of every folder id is the same
\* whatever the memo table holds from earlier resolutions, so every entry
\* of folders.json carries it; for the chain c -> b -> a it is "A/B/C".
C5_FolderDeterminism ==
    (dump.pc \in {"folders", "records"} /\ Acyclic(dump.folder_by_id)) =>
        /\ \A f \in DOMAIN dump.folder_by_id :
              LET now == ComputeFolderPath(f, dump.folder_by_id, dump.folder_paths, 0)
                  fresh == ComputeFolderPath(f, dump.folder_by_id, EmptyMemo, 0)
              IN ~now.raised /\ now.path = fresh.path
        /\ \A i \in DOMAIN dump.folder_manifest :
              LET e == dump.folder_manifest[i]
                  fresh == ComputeFolderPath(DictGet(e, S_idfield).s, dump.folder_by_id,
                                             EmptyMemo, 0)
              IN DictGet(e, S_path).s = PathStr(fresh.path.segs)
        /\ (IsChain(dump.folder_by_id) /\ F_c \in DOMAIN dump.folder_paths) =>
              PathStr(dump.folder_paths[F_c]) = <<65, 47, 66, 47, 67>>

\* the chain's last folder has been resolved with its ancestors in the memo
C5_Witness ==
    /\ dump.pc = "records"
    /\ IsChain(dump.folder_by_id)
    /\ DOMAIN dump.folder_paths = GraphFolders
    /\ dump.folder_paths[F_c] = <<<<65>>, <<66>>, <<67>>>>

\* the placed records whose value names a folder that is not in the index
OutsideRefs ==
    {i \in DOMAIN dump.manifest :
        FolderRef(dump.records[i]) # <<>>
        /\ FolderRef(dump.records[i]) \notin DOMAIN dump.folder_by_id}

\* C6 as stated: an id outside the folder index resolves to its own
\* sanitised name.
C6_OutsideIdResolvesToOwnName ==
    \A i \in OutsideRefs :
        LET rec == dump.records[i]
            r == ComputeFolderPath(FolderRef(rec), dump.folder_by_id, dump.folder_paths, 0)
        IN r.path = SomePath(<<SafeName(FolderRef(rec))>>)

\* C6 amended: an id outside the folder index resolves to no path, and a
\* record that refers to it is placed in the directory named after its root.
C6_OutsideIdResolvesToNoPath ==
    \A i \in OutsideRefs :
        LET rec == dump.records[i]
            r == ComputeFolderPath(FolderRef(rec), dump.folder_by_id, dump.folder_paths, 0)
        IN /\ r.path = NoPath
           /\ DictGet(dump.manifest[i], S_path).s
                 = PathStr(<<rec.root, PlacedFileName(rec)>>)

C6_Witness == dump.pc = "records" /\ OutsideRefs # {} /\ DOMAIN dump.folder_by_id # {}

\* C7: within one dump no two store entries are placed at the same file
\* path: the paths of the manifest are pairwise distinct.
C7_NoPathCollision ==
    \A i, j \in DOMAIN dump.manifest :
        i # j => DictGet(dump.manifest[i], S_path) # DictGet(dump.manifest[j], S_path)

\* C8: encode(decode(encode(v))) = encode(v) for every value v, and
\* encode(decode(b)) = b for every byte string b that is not UTF-8.
C8_RoundTripLaw ==
    codec.pc = "reencoded" =>
        /\ codec.kind = "value" => codec.out = codec.enc
        /\ codec.kind = "bytes" => codec.out = codec.raw

NoDiff == [added |-> {}, removed |-> {}, changed |-> {}]

\* C1: dump followed by rebuild on the untouched output reproduces the
\* source store: the rebuild completes and its diff against the source
\* reports nothing added, removed or changed.
C1_RoundTripReproducesStore ==
    (edits = 0 /\ dump.exit = "0" /\ rb.pc = "exit") => (rb.exit = "0" /\ rb.diff = NoDiff)

KeysOf(records) == {records[i].key : i \in DOMAIN records}
ValuesOf(records, key) == {records[i].value : i \in {j \in DOMAIN records : records[j].key = key}}

\* the store of the current rebuild step has been written
Written ==
    /\ rb.pc \in {"finally", "snapshot", "loop", "exit"}
    /\ rb.db \in DOMAIN deployRoot
    /\ rb.error \in {"none", "SnapshotOpenError"}
    /\ rb.merged # NoRows

\* C2: when a manifest record and a new file produce the same key, the
\* rebuilt store holds under that key the encoding of a new file's
\* content.
C2_NewFileOverridesManifest ==
    Written =>
        \A key \in KeysOf(rb.known_records) \cap KeysOf(rb.new_records) :
            /\ Utf8Encode(key) \in DOMAIN deployRoot[rb.db].rows
            /\ deployRoot[rb.db].rows[Utf8Encode(key)] \in ValuesOf(rb.new_records, key)

\* a store written from a manifest record and a new file that share a key
\* and differ in content
C2_Witness ==
    /\ Written
    /\ \E key \in KeysOf(rb.known_records) \cap KeysOf(rb.new_records) :
          ValuesOf(rb.known_records, key) \cap ValuesOf(rb.new_records, key) = {}

\* the "id" fields of the manifest's entries
ManifestIds(manifest) ==
    {DictGet(manifest[i], S_idfield).s :
        i \in {j \in DOMAIN manifest : IsStr(DictGet(manifest[j], S_idfield))}}

\* the id segments of the manifest's keys of the form !root!id
RootIdKeyIds(manifest) ==
    {Split(DictGet(manifest[i], S_key).s, Bang)[3] :
        i \in {j \in DOMAIN manifest :
                  /\ IsStr(DictGet(manifest[j], S_key))
                  /\ StartsWith(DictGet(manifest[j], S_key).s, <<Bang>>)
                  /\ Len(Split(DictGet(manifest[j], S_key).s, Bang)) >= 3}}

PairwiseDistinct(ids) == \A i, j \in DOMAIN ids : i # j => ids[i] # ids[j]

C9_OpenFailureAbortsOnlyThatStore ==
    /\ dump.error # "OpenError"
    /\ rb.error # "WriterOpenError"
    /\ dump.exit = "0" =>
          \A db \in DOMAIN inRoot : inRoot[db].openable => db \in dump.processed

\* C10: the handle the rebuild opened on a store is open only inside that
\* store's try block: it is released when the finally block has run, on
\* every exit path and for every backend.
C10_WriterReleased ==
    \A db \in DOMAIN deployRoot :
        deployRoot[db].open =>
            (rb.db = db /\ rb.pc \in {"manifest", "known", "scan", "new", "finally"})

\* the manifest entries that name a key and a path, and those among them
\* whose record file is absent from, or present in, the output tree
Entries(manifest) ==
    {i \in DOMAIN manifest :
        IsStr(DictGet(manifest[i], S_key)) /\ IsStr(DictGet(manifest[i], S_path))}
MissingEntries(manifest, files) ==
    {i \in Entries(manifest) : DictGet(manifest[i], S_path).s \notin DOMAIN files}
PresentEntries(manifest, files) == Entries(manifest) \ MissingEntries(manifest, files)
EntryKeys(manifest, entries) == {DictGet(manifest[i], S_key).s : i \in entries}

\* a file that _read_json or _encode_value rejects
Unreadable(text) ==
    LET rejected(read) == ~read.ok \/ ~EncodeValue(read.v).ok
    IN rejected(Loads(text))

\* the store of the current rebuild step has been written and closed
\* without an exception
Rebuilt ==
    /\ rb.pc \in {"snapshot", "loop", "exit"}
    /\ rb.db \in DOMAIN deployRoot /\ rb.db \in DOMAIN outRoot
    /\ rb.error \in {"none", "SnapshotOpenError"}

\* the known records are the entries whose file exists
KnownArePresent(present) ==
    /\ Len(rb.known_records) = Cardinality(present)
    /\ KeysOf(rb.known_records) = EntryKeys(rb.manifest, present)

\* the store holds the key of every entry whose file exists, and the key
\* of an absent entry only when a record produces it
WrittenArePresent(rows, present, missing) ==
    /\ \A key \in EntryKeys(rb.manifest, present) : Utf8Encode(key) \in DOMAIN rows
    /\ \A key \in EntryKeys(rb.manifest, missing) :
          Utf8Encode(key) \in DOMAIN rows
              => key \in KeysOf(rb.known_records) \cup KeysOf(rb.new_records)

\* C11: a manifest entry whose record file is absent is skipped and is not
\* fatal.  The known records are exactly the entries whose file exists, in
\* manifest order; an exception raised while the records are read has an
\* unreadable file as its cause, never an absent one; and the rebuilt
\* store holds the key of every entry whose file exists, and the key of an
\* absent entry only when another entry or a new file produces it.
C11_MissingRecordFileSkipped ==
    /\ rb.pc \in {"scan", "new"} =>
          KnownArePresent(PresentEntries(rb.manifest, outRoot[rb.db]))
    /\ rb.error = "RecordError" =>
          \E path \in DOMAIN outRoot[rb.db] : Unreadable(outRoot[rb.db][path])
    /\ Rebuilt =>
          WrittenArePresent(deployRoot[rb.db].rows,
                            PresentEntries(rb.manifest, outRoot[rb.db]),
                            MissingEntries(rb.manifest, outRoot[rb.db]))

\* a run of two stores that returned 0 although an entry of the first
\* store's manifest had lost its file, while another entry had not
C11_Witness ==
    /\ rb.pc = "exit" /\ rb.exit = "0"
    /\ Len(rb.db_dirs) = 2
    /\ rb.db_dirs[1] \in DOMAIN deployRoot
    /\ LET files == outRoot[rb.db_dirs[1]]
           manifest == LoadManifest(files).records
       IN /\ MissingEntries(manifest, files) # {}
          /\ PresentEntries(manifest, files) # {}
          /\ \A key \in EntryKeys(manifest, PresentEntries(manifest, files)) :
                Utf8Encode(key) \in DOMAIN deployRoot[rb.db_dirs[1]].rows
          /\ \E key \in EntryKeys(manifest, MissingEntries(manifest, files)) :
                Utf8Encode(key) \notin DOMAIN deployRoot[rb.db_dirs[1]].rows

\* _print_db_diff has reported on the store of the current rebuild step
Diffed ==
    /\ rb.pc \in {"loop", "exit"} /\ rb.error = "none" /\ rb.folders_processed >= 1
    /\ rb.db \in DOMAIN inRoot /\ rb.db \in DOMAIN deployRoot

SourceRows == SnapshotDb(inRoot[rb.db].rows)
RebuiltRows == SnapshotDb(deployRoot[rb.db].rows)

\* added and removed are the keys of one side only, the three sets are
\* pairwise disjoint, and two identical stores give three empty sets
DiffOfKeySets(source_rows, rebuilt_rows) ==
    /\ rb.diff.added = DOMAIN rebuilt_rows \ DOMAIN source_rows
    /\ rb.diff.removed = DOMAIN source_rows \ DOMAIN rebuilt_rows
    /\ rb.diff.added \cap rb.diff.removed = {}
    /\ rb.diff.added \cap rb.diff.changed = {}
    /\ rb.diff.removed \cap rb.diff.changed = {}
    /\ source_rows = rebuilt_rows => rb.diff = NoDiff

\* the shared keys whose value bytes are unequal
UnequalBytes(source_rows, rebuilt_rows) ==
    {k \in DOMAIN source_rows \cap DOMAIN rebuilt_rows : source_rows[k] # rebuilt_rows[k]}

\* the shared keys whose value bytes are unequal and whose decoded values
\* are unequal as well
UnequalDecoded(source_rows, rebuilt_rows) ==
    {k \in UnequalBytes(source_rows, rebuilt_rows) :
        ~ValEq(DecodeValue(source_rows[k]), DecodeValue(rebuilt_rows[k]))}

ChangedIsUnequalBytes(source_rows, rebuilt_rows) ==
    /\ DiffOfKeySets(source_rows, rebuilt_rows)
    /\ rb.diff.changed = UnequalBytes(source_rows, rebuilt_rows)

ChangedIsUnequalDecoded(source_rows, rebuilt_rows) ==
    /\ DiffOfKeySets(source_rows, rebuilt_rows)
    /\ rb.diff.changed = UnequalDecoded(source_rows, rebuilt_rows)

C12_WitnessSelf ==
    /\ Diffed
    /\ SourceRows = RebuiltRows /\ SourceRows # NoRows

\* the ids a discovered file carries: the suffix of its name and the
\* trimmed _id of its value
DiscoveredIds(files, path) ==
    LET ofValue(read) ==
            IF read.ok /\ IsDict(read.v) /\ IsNonBlankStr(DictGet(read.v, S_id))
            THEN {Strip(DictGet(read.v, S_id).s)} ELSE {}
    IN (IF FilenameHasId(path) THEN {AfterLastUU(PathStem(path))} ELSE {})
       \cup (IF path \in DOMAIN files THEN ofValue(Loads(files[path])) ELSE {})

AllocatedIds == {rb.allocated[i] : i \in DOMAIN rb.allocated}

\* C13: during the scan of the new files, no allocated id is an id of a
\* discovered file that is still to be processed, and no two new records
\* share a key made of an allocated id.
C13_AllocatedIdAvoidsDiscoveredFiles ==
    rb.pc = "new" =>
        /\ \A k \in DOMAIN rb.pending :
              AllocatedIds \cap DiscoveredIds(outRoot[rb.db], rb.pending[k]) = {}
        /\ \A i, j \in DOMAIN rb.new_records :
              (i # j /\ rb.new_records[i].key = rb.new_records[j].key)
                  => ExtractIdFromKey(rb.new_records[i].key) \notin AllocatedIds

\* C14: each step of the scan of the new files takes the first pending
\* path off the list taken before the scan and adds one record; every path
\* still pending is a file that was there before the step and that the
\* step, with its rename and its rewrite, has left alone.
C14_ScanUsesSnapshot ==
    [][(rb.pc = "new" /\ rb'.pc = "new") =>
          /\ rb'.pending = Tail(rb.pending)
          /\ Len(rb'.new_records) = Len(rb.new_records) + 1
          /\ \A k \in DOMAIN rb'.pending :
                /\ rb'.pending[k] \in DOMAIN outRoot[rb.db]
                /\ rb'.pending[k] \in DOMAIN outRoot'[rb.db]
                /\ outRoot'[rb.db][rb'.pending[k]] = outRoot[rb.db][rb'.pending[k]]]_vars

\* the scan of the new files of the current store has ended normally
ScanDone == rb.pc = "new" /\ rb.pending = <<>>

\* the files the scan has processed, under the names it left them with
NewFiles == {rb.processed[i] : i \in DOMAIN rb.processed}

NewFileValue(p) == Loads(outRoot[rb.db][p]).v

\* the key of a new file: the root is the first segment of its path, or
\* under _tree/ the segment before the file name; the id is the trimmed
\* _id of an object, else the suffix of the file name
NewFileKey(p, value) ==
    LET root(parts) == IF parts[1] = S_tree THEN parts[Len(parts) - 1] ELSE parts[1]
        id == IF IsDict(value) THEN Strip(DictGet(value, S_id).s)
              ELSE AfterLastUU(PathStem(p))
    IN <<Bang>> \o root(PathParts(p)) \o <<Bang>> \o id

\* whether source is new_id or ends with '.' and new_id
EndsWithSegment(source, new_id) ==
    \/ source = new_id
    \/ /\ Len(source) > Len(new_id)
       /\ SubFrom(source, Len(source) - Len(new_id)) = <<Dot>> \o new_id

\* a processed file and its record: the name has an id suffix, an object
\* holds a non-blank _id, the record's key is !root!id, and an object with
\* an allocated id and a non-empty compendium source has the id as the
\* source's last segment
CarriesId(p, value, record) ==
    LET stamped(id, stats) ==
            (/\ id.s \in AllocatedIds
             /\ IsDict(stats) /\ IsNonBlankStr(DictGet(stats, S_compendiumSource)))
                => EndsWithSegment(DictGet(stats, S_compendiumSource).s, id.s)
        object(id) == /\ IsStr(id) /\ Strip(id.s) # <<>>
                      /\ stamped(id, DictGet(value, S_stats))
    IN /\ UUAt(PathStem(p)) # {} /\ AfterLastUU(PathStem(p)) # <<>>
       /\ IsDict(value) => object(DictGet(value, S_id))
       /\ record.key = NewFileKey(p, value)

\* C15: when the scan of the new files has ended, every processed file has
\* an id suffix in its name, every processed file that holds an object
\* holds a non-blank _id, the key of each new record is the key !root!id
\* of its file, and an object that holds an allocated id and a non-empty
\* _stats.compendiumSource has that id as the source's last segment.
C15_NewFilesCarryIds ==
    ScanDone =>
        /\ Len(rb.new_records) = Len(rb.processed)
        /\ \A i \in DOMAIN rb.processed :
              /\ rb.processed[i] \in DOMAIN outRoot[rb.db]
              /\ CarriesId(rb.processed[i], NewFileValue(rb.processed[i]), rb.new_records[i])

\* a finished scan that allocated ids for an object under _tree/ with a
\* compendium source and for a file that holds no object
C15_Witness ==
    /\ ScanDone
    /\ Len(rb.allocated) >= 2
    /\ \E p \in NewFiles :
          /\ PathParts(p)[1] = S_tree
          /\ IsDict(DictGet(NewFileValue(p), S_stats))
          /\ DictGet(NewFileValue(p), S_id).s \in AllocatedIds
    /\ \E p \in NewFiles :
          ~IsDict(NewFileValue(p)) /\ AfterLastUU(PathStem(p)) \in AllocatedIds

\* C16: a second rebuild of an output tree that a completed rebuild has
\* left, with no edit in between, allocates no id, leaves every file of
\* the tree as it was, returns 0 and writes the store the first rebuild
\* wrote.
C16_SecondPassChangesNothing ==
    (rb.pass = 2 /\ edits = rb.first.edits) =>
        /\ rb.allocated = <<>>
        /\ outRoot = rb.first.out
        /\ rb.pc = "exit" => rb.exit = "0"
        /\ Rebuilt => deployRoot[rb.db].rows = rb.first.deploy[rb.db].rows

====
